---------------------------- MODULE Spec2Model ----------------------------
(***************************************************************************)
(* A model of submittal-packager's validation engine: the filename parser  *)
(* (validators.parse_filename), the stage resolver, the requirement        *)
(* matcher, the batch validators and the validate_directory / run_package  *)
(* pipeline of packager.py.                                                *)
(*                                                                         *)
(* Text is modelled as a sequence of one-character strings, so that case   *)
(* folding, splitting, digit tests, glob matching and substring tests are  *)
(* computed the way the Python code computes them.                         *)
(***************************************************************************)
EXTENDS Integers, Sequences, FiniteSets, TLC

VARIABLES
    call,       \* the arguments of the operation under way (fixed by Init)
    ret,        \* what a directly called function returned (NotCalled before)
    pc,         \* position of the validate_directory / run_package pipeline
    idx,        \* _build_manifest: index of the next file of the scan
    build,      \* _build_manifest locals: entries, messages, parsed_records, missing_keywords
    result,     \* the ValidationResult under construction: manifest, errors, warnings
    exc,        \* the exception that ended the call, NoExc while none
    outputs,    \* run_package: the artefacts written so far, in order
    archive,    \* run_package: the entries of the ZIP archive, in order
    gui         \* the main window and its worker (NoWindow outside the GUI)

vars == <<call, ret, pc, idx, build, result, exc, outputs, archive, gui>>

---------------------------------------------------------------------------
(* Bounds of the model.                                                    *)

MaxStages == 2
MaxFiles == 2
MaxReqs == 2

---------------------------------------------------------------------------
(* Python values.                                                          *)

\* None where a str is expected (never equal to a sequence of characters).
None == <<"<None>">>

\* None where an int is expected (sheet numbers are never negative).
NoInt == 0 - 1

\* None where a StageArtifacts is expected.
NoStageConfig == [none |-> TRUE]

\* None where a ParsedFilename is expected.
NoParsed == [none |-> TRUE]

NotCalled == [called |-> FALSE]

\* No main window: the program runs from the command line.
NoWindow == [none |-> TRUE]

NoExc == "none"

\* Python truthiness of an optional str: None and "" are falsy.
Truthy(s) == s # None /\ s # <<>>

---------------------------------------------------------------------------
(* str methods.                                                            *)

LowerAlpha == <<"a","b","c","d","e","f","g","h","i","j","k","l","m",
                "n","o","p","q","r","s","t","u","v","w","x","y","z">>
UpperAlpha == <<"A","B","C","D","E","F","G","H","I","J","K","L","M",
                "N","O","P","Q","R","S","T","U","V","W","X","Y","Z">>
Digits == <<"0","1","2","3","4","5","6","7","8","9">>

InSeq(c, alpha) == \E i \in 1..Len(alpha) : alpha[i] = c
IndexOf(c, alpha) == CHOOSE i \in 1..Len(alpha) : alpha[i] = c

LowerChar(c) == IF InSeq(c, UpperAlpha) THEN LowerAlpha[IndexOf(c, UpperAlpha)] ELSE c
UpperChar(c) == IF InSeq(c, LowerAlpha) THEN UpperAlpha[IndexOf(c, LowerAlpha)] ELSE c

\* str.lower() and str.upper()
lower(s) == [i \in 1..Len(s) |-> LowerChar(s[i])]
upper(s) == [i \in 1..Len(s) |-> UpperChar(s[i])]

\* c in s, for a character c
HasChar(c, s) == \E i \in 1..Len(s) : s[i] = c

\* str.isdigit(): non-empty and every character a digit
isdigit(s) == Len(s) > 0 /\ \A i \in 1..Len(s) : InSeq(s[i], Digits)

\* sub in s, for strings
Contains(sub, s) ==
    \E i \in 0..(Len(s) - Len(sub)) : \A j \in 1..Len(sub) : s[i + j] = sub[j]

\* The position of the first occurrence of character c in s, 0 when absent.
Find(c, s) == IF HasChar(c, s) THEN CHOOSE i \in 1..Len(s) : s[i] = c /\ \A j \in 1..(i - 1) : s[j] # c
              ELSE 0

\* str.split(sep) for a one-character separator: every piece, empty ones included.
RECURSIVE split(_, _)
split(s, sep) ==
    IF ~HasChar(sep, s) THEN <<s>>
    ELSE LET p == Find(sep, s)
         IN  <<SubSeq(s, 1, p - 1)>> \o split(SubSeq(s, p + 1, Len(s)), sep)

\* str.split(sep, 1): at most one cut, at the first separator.
split1(s, sep) ==
    IF ~HasChar(sep, s) THEN <<s>>
    ELSE LET p == Find(sep, s)
         IN  <<SubSeq(s, 1, p - 1), SubSeq(s, p + 1, Len(s))>>

\* str.strip(): leading and trailing blanks removed.
RECURSIVE strip(_)
strip(s) ==
    IF Len(s) > 0 /\ s[1] = " " THEN strip(Tail(s))
    ELSE IF Len(s) > 0 /\ s[Len(s)] = " " THEN strip(SubSeq(s, 1, Len(s) - 1))
    ELSE s

\* int(s) of a string of digits.
RECURSIVE DigitsValue(_)
DigitsValue(s) ==
    IF Len(s) = 0 THEN 0
    ELSE 10 * DigitsValue(SubSeq(s, 1, Len(s) - 1)) + (IndexOf(s[Len(s)], Digits) - 1)

\* int(s): the value, or the ValueError Python raises on a non-numeric literal.
ValueError == 0 - 2
int(s) == IF isdigit(s) THEN DigitsValue(s) ELSE ValueError

---------------------------------------------------------------------------
(* config.py: the configuration object.                                    *)

\* StageArtifacts() with its defaults (config.py:55-71).
StageArtifacts ==
    [ required |-> <<>>, optional |-> <<>>, discipline_codes |-> <<>>,
      forms |-> <<>>, keywords_required |-> <<>>, keywords_forbidden |-> <<>> ]

\* One entry of the ordered stages dictionary.
StageEntry(key, artifacts) == [key |-> key, cfg |-> artifacts]

---------------------------------------------------------------------------
(* validators.py: normalize_stage and resolve_stage_config.                *)

normalize_stage(stage, case_insensitive) ==
    IF case_insensitive THEN lower(stage) ELSE stage

\* The loop of resolve_stage_config over config.stages.items(), from entry i on:
\* the first entry whose key equals the name, or equals it ignoring case when
\* stage_case_insensitive is set, is returned.
RECURSIVE resolve_stage_loop(_, _, _)
resolve_stage_loop(stage_name, config, i) ==
    IF i > Len(config.stages) THEN [key |-> None, cfg |-> NoStageConfig]
    ELSE LET key == config.stages[i].key
         IN  IF key = stage_name
                THEN [key |-> key, cfg |-> config.stages[i].cfg]
             ELSE IF config.conventions.stage_case_insensitive
                     /\ lower(key) = lower(stage_name)
                THEN [key |-> key, cfg |-> config.stages[i].cfg]
             ELSE resolve_stage_loop(stage_name, config, i + 1)

resolve_stage_config(stage_name, config) ==
    IF ~Truthy(stage_name) THEN [key |-> None, cfg |-> NoStageConfig]
    ELSE resolve_stage_loop(stage_name, config, 1)

---------------------------------------------------------------------------
(* models.py: messages and parsed records.                                 *)

\* ValidationMessage(level, text): the text is kept as the template that
\* produced it plus the values interpolated into it.
ValidationMessage(level, kind, args) == [level |-> level, kind |-> kind, args |-> args]

ERROR == "error"
WARNING == "warning"

\* ParsedFilename(source=path): a slots dataclass, so its attributes are
\* exactly the declared fields (models.py:27-38).
ParsedFilename(source) ==
    [ source |-> source, des |-> None, stage |-> None, discipline |-> None,
      sheet_type |-> None, sheet_start |-> NoInt, sheet_end |-> NoInt, ext |-> None ]

\* The declared fields of ManifestEntry (models.py:49-63).
ManifestEntryFields ==
    { "relative_path", "size_bytes", "pages", "checksum", "des", "stage",
      "discipline", "sheet_type", "sheet_start", "sheet_end", "ext" }

\* setattr(obj, field, value) on a slots dataclass: an attribute that is not a
\* declared field raises AttributeError.
HasAttr(obj, field) == field \in DOMAIN obj
SetAttr(obj, field, value) == [obj EXCEPT ![field] = value]

\* ManifestEntry(**kwargs): a keyword that is not a declared field raises TypeError.
ManifestEntryAccepts(kwargs) == DOMAIN kwargs \subseteq ManifestEntryFields

---------------------------------------------------------------------------
(* File names and the naming convention's regular expressions.             *)

Sep == <<"_">>
Dot == <<".">>

\* filename_pattern "{des}_{stage}_{discipline}_{sheet_type}_{sheet_range}.{ext}"
\* (cli.py:141) applied to field values.
FormatName(des, stage, discipline, sheet_type, sheet_range, ext) ==
    des \o Sep \o stage \o Sep \o discipline \o Sep \o sheet_type \o Sep
        \o sheet_range \o Dot \o ext

AllChars(s, ok(_)) == Len(s) > 0 /\ \A i \in 1..Len(s) : ok(s[i])

IsDigitChar(c) == InSeq(c, Digits)
IsUpperChar(c) == InSeq(c, UpperAlpha)
IsAlnumChar(c) == InSeq(c, Digits) \/ InSeq(c, UpperAlpha) \/ InSeq(c, LowerAlpha)
IsFieldChar(c) == c # "_" /\ c # "."

\* Whether a piece of a name matches a character class of a regex.
ClassMatch(class, s) ==
    CASE class = "d7"     -> Len(s) = 7 /\ AllChars(s, IsDigitChar)
      [] class = "stage"  -> s \in { <<"S","t","a","g","e","1">>, <<"S","t","a","g","e","2">>,
                                     <<"S","t","a","g","e","3">>, <<"F","i","n","a","l">> }
      [] class = "AZ"     -> AllChars(s, IsUpperChar)
      [] class = "alnum"  -> AllChars(s, IsAlnumChar)
      [] class = "range"  -> LET c == split(s, "-")
                             IN  Len(c) \in {1, 2} /\ \A i \in 1..Len(c) : AllChars(c[i], IsDigitChar)
      [] class = "ext"    -> s \in { <<"p","d","f">>, <<"d","o","c","x">> }
      [] class = "field"  -> AllChars(s, IsFieldChar)

FieldOrder == <<"des", "stage", "discipline", "sheet_type", "sheet_range", "ext">>

\* The regex of the test configurations (tests/test_filenames.py:31):
\* ^(?P<des>\d{7})_(?P<stage>Stage[123]|Final)_(?P<discipline>[A-Z]+)
\*  _(?P<sheet_type>[A-Za-z0-9]+)_(?P<sheet_range>\d+(?:-\d+)?)\.(?P<ext>pdf|docx)$
RegexStrict ==
    [ groups |-> {"des", "stage", "discipline", "sheet_type", "sheet_range", "ext"},
      class  |-> [ des |-> "d7", stage |-> "stage", discipline |-> "AZ",
                   sheet_type |-> "alnum", sheet_range |-> "range", ext |-> "ext" ] ]

\* A permissive pattern with the same six groups, each [^_.]+ .
RegexLoose ==
    [ groups |-> {"des", "stage", "discipline", "sheet_type", "sheet_range", "ext"},
      class  |-> [ des |-> "field", stage |-> "field", discipline |-> "field",
                   sheet_type |-> "field", sheet_range |-> "field", ext |-> "field" ] ]

\* A permissive pattern that names only the des, sheet_type and ext groups.
RegexPartial ==
    [ groups |-> {"des", "sheet_type", "ext"},
      class  |-> [ des |-> "field", stage |-> "field", discipline |-> "field",
                   sheet_type |-> "field", sheet_range |-> "field", ext |-> "field" ] ]

NoMatch == [matched |-> FALSE]

\* The six pieces of a name of the shape a_b_c_d_e.f, or <<>> for another shape.
Pieces(name) ==
    LET d == split(name, ".")
    IN  IF Len(d) # 2 THEN <<>>
        ELSE LET u == split(d[1], "_")
             IN  IF Len(u) # 5 THEN <<>> ELSE u \o <<d[2]>>

\* re.match(regex, name): the match's groupdict(), or NoMatch.
re_match(regex, name) ==
    LET p == Pieces(name)
    IN  IF p = <<>> THEN NoMatch
        ELSE IF \A i \in 1..6 : ClassMatch(regex.class[FieldOrder[i]], p[i])
        THEN [matched |-> TRUE,
              groupdict |-> [g \in regex.groups |->
                                p[CHOOSE i \in 1..6 : FieldOrder[i] = g]]]
        ELSE NoMatch

\* data.get(field)
Get(data, field) == IF field \in DOMAIN data THEN data[field] ELSE None

---------------------------------------------------------------------------
(* validators.py: parse_filename.                                          *)

\* What a call produced: the pair it returned, or the exception it raised.
Returned(parsed, messages) == [exc |-> NoExc, parsed |-> parsed, messages |-> messages]
Raised(e) == [exc |-> e, parsed |-> NoParsed, messages |-> <<>>]

\* str(n) for n >= 0, and f"{n:0{width}d}".
RECURSIVE str(_)
str(n) == IF n < 10 THEN <<Digits[n + 1]>> ELSE str(n \div 10) \o <<Digits[(n % 10) + 1]>>
RECURSIVE ZeroPad(_, _)
ZeroPad(s, width) == IF Len(s) >= width THEN s ELSE ZeroPad(<<"0">> \o s, width)
FormatInt(n, width) == ZeroPad(str(n), width)

\* [code.upper() for code in codes]
UpperAll(codes) == [i \in 1..Len(codes) |-> upper(codes[i])]

normalize_sheet_range(raw) ==
    IF HasChar("-", raw)
    THEN LET p == split1(raw, "-") IN [start |-> int(p[1]), end |-> int(p[2])]
    ELSE [start |-> int(raw), end |-> NoInt]

\* Lines 82-87: the primary regex, then each exception regex in declared order.
RECURSIVE exception_match(_, _, _)
exception_match(exceptions, name, i) ==
    IF i > Len(exceptions) THEN NoMatch
    ELSE LET m == re_match(exceptions[i].regex, name)
         IN  IF m.matched THEN m ELSE exception_match(exceptions, name, i + 1)

first_match(config, name) ==
    LET m == re_match(config.conventions.regex, name)
    IN  IF m.matched THEN m ELSE exception_match(config.conventions.exceptions, name, 1)

\* Lines 97-101: copy the simple fields the match has a group for.
populate_fields(parsed, data) ==
    [f \in DOMAIN parsed |->
        IF f \in {"des", "stage", "discipline", "sheet_type", "ext"} /\ f \in DOMAIN data
        THEN data[f] ELSE parsed[f]]

\* Lines 142-159: the messages of the loop over the components of sheet_range;
\* has_error is set exactly when one is emitted.
RECURSIVE component_messages(_, _, _, _)
component_messages(components, i, name, number_config) ==
    IF i > Len(components) THEN <<>>
    ELSE LET component == components[i]
             here ==
               IF ~isdigit(component)
               THEN <<ValidationMessage(ERROR, "NonNumericSheet", <<component, name>>)>>
               ELSE IF number_config.enabled /\ number_config.width # 0
                       /\ Len(component) # number_config.width
               THEN <<ValidationMessage(ERROR, "SheetWidthMismatch",
                                        <<component, name, str(number_config.width)>>)>>
               ELSE <<>>
         IN  here \o component_messages(components, i + 1, name, number_config)

\* Lines 172-175.
parse_finish(parsed, messages) ==
    Returned(IF Truthy(parsed.ext) THEN SetAttr(parsed, "ext", lower(parsed.ext)) ELSE parsed,
             messages)

\* Lines 136-170: the sheet range.
parse_sheet_range(parsed, messages, name, data, config) ==
    LET sheet_range == Get(data, "sheet_range")
    IN  IF ~Truthy(sheet_range) THEN parse_finish(parsed, messages)
        ELSE IF ~HasAttr(parsed, "sheet_range_raw") THEN Raised("AttributeError")
        ELSE
          LET p1 == SetAttr(parsed, "sheet_range_raw", sheet_range)
              cm == component_messages(split(sheet_range, "-"), 1, name,
                                       config.checks.sheet_numbering)
          IN  IF cm # <<>> THEN parse_finish(p1, messages \o cm)
              ELSE
                LET r == normalize_sheet_range(sheet_range)
                IN  IF r.start = ValueError \/ r.end = ValueError THEN Raised("ValueError")
                    ELSE parse_finish(
                           [p1 EXCEPT !.sheet_start = r.start, !.sheet_end = r.end],
                           messages \o
                             IF r.end # NoInt /\ r.start > r.end
                             THEN <<ValidationMessage(ERROR, "InvertedRange", <<sheet_range, name>>)>>
                             ELSE <<>>)

\* Lines 93-134: the fields, the extension, the stage and the discipline.
parse_matched(path, name, data, config) ==
    LET p1 == populate_fields(ParsedFilename(path), data)
        ext_messages ==
          IF Truthy(p1.ext) /\ ~InSeq(lower(p1.ext), config.conventions.allowed_extensions)
          THEN <<ValidationMessage(ERROR, "ExtensionNotAllowed", <<p1.ext>>)>> ELSE <<>>
        raw_stage == Get(data, "stage")
        p2 == IF Truthy(raw_stage)
              THEN SetAttr(p1, "stage",
                           normalize_stage(raw_stage, config.conventions.stage_case_insensitive))
              ELSE p1
        resolved == resolve_stage_config(raw_stage, config)
    IN  IF ~HasAttr(p2, "stage_key") THEN Raised("AttributeError")
        ELSE
          LET p3 == SetAttr(p2, "stage_key", resolved.key)
              stage_messages ==
                IF Truthy(raw_stage) /\ resolved.key = None
                THEN <<ValidationMessage(ERROR, "UnconfiguredStage", <<raw_stage, name>>)>>
                ELSE <<>>
              p4 == IF Truthy(p3.discipline)
                    THEN SetAttr(p3, "discipline", upper(p3.discipline)) ELSE p3
              discipline_messages ==
                IF /\ Truthy(p3.discipline)
                   /\ resolved.cfg # NoStageConfig
                   /\ config.checks.discipline_codes.enabled
                   /\ resolved.cfg.discipline_codes # <<>>
                   /\ ~InSeq(p4.discipline, UpperAll(resolved.cfg.discipline_codes))
                THEN <<ValidationMessage(ERROR, "DisciplineNotValid",
                                         <<p4.discipline, resolved.key>>)>>
                ELSE <<>>
          IN  parse_sheet_range(p4, ext_messages \o stage_messages \o discipline_messages,
                                name, data, config)

\* parse_filename without the space check of lines 78-80 (a faulty variant of it).
parse_filename_without_space_check(path, config) ==
    LET name == path
        match == first_match(config, name)
    IN  IF ~match.matched
        THEN Returned(NoParsed, <<ValidationMessage(ERROR, "PatternMismatch", <<name>>)>>)
        ELSE parse_matched(path, name, match.groupdict, config)

\* Lines 73-91: the space check and the regexes; path.name is the path itself,
\* the scanned directory being flat.
parse_filename(path, config) ==
    LET name == path
    IN  IF ~config.conventions.allow_spaces /\ HasChar(" ", name)
        THEN Returned(NoParsed, <<ValidationMessage(ERROR, "SpaceNotAllowed", <<name>>)>>)
        ELSE LET match == first_match(config, name)
             IN  IF ~match.matched
                 THEN Returned(NoParsed,
                               <<ValidationMessage(ERROR, "PatternMismatch", <<name>>)>>)
                 ELSE parse_matched(path, name, match.groupdict, config)

---------------------------------------------------------------------------
(* sorted(): the order of str values (by code point) and of int pairs.     *)

\* The characters the model uses, in code-point order.
CodeOrder == <<" ", "*", "-", ".">> \o Digits \o <<"?">> \o UpperAlpha \o <<"_">>
             \o LowerAlpha \o <<"|">>

CharLess(a, b) == IndexOf(a, CodeOrder) < IndexOf(b, CodeOrder)

RECURSIVE StrLess(_, _)
StrLess(a, b) ==
    IF Len(b) = 0 THEN FALSE
    ELSE IF Len(a) = 0 THEN TRUE
    ELSE IF a[1] = b[1] THEN StrLess(Tail(a), Tail(b))
    ELSE CharLess(a[1], b[1])

\* The order sorted() and list.sort() use, by the kind of value compared:
\* str values, (start, end) tuples, or records under key=sheet_start or 0.
Less(kind, a, b) ==
    CASE kind = "str"   -> StrLess(a, b)
      [] kind = "pair"  -> a[1] < b[1] \/ (a[1] = b[1] /\ a[2] < b[2])
      [] kind = "file"  -> StrLess(a.name, b.name)
      [] kind = "start" -> (IF a.sheet_start = NoInt THEN 0 ELSE a.sheet_start)
                           < (IF b.sheet_start = NoInt THEN 0 ELSE b.sheet_start)

\* Insert x into the sorted sequence s after every element not greater than it
\* (so that equal keys keep their order: Python's sort is stable).
RECURSIVE InsertSorted(_, _, _)
InsertSorted(x, s, kind) ==
    IF Len(s) = 0 THEN <<x>>
    ELSE IF Less(kind, x, s[1]) THEN <<x>> \o s
    ELSE <<s[1]>> \o InsertSorted(x, Tail(s), kind)

RECURSIVE SortBy(_, _)
SortBy(s, kind) ==
    IF Len(s) = 0 THEN <<>>
    ELSE InsertSorted(s[Len(s)], SortBy(SubSeq(s, 1, Len(s) - 1), kind), kind)

\* sorted(S) for a set S: any enumeration of it, sorted.
RECURSIVE SetToSeq(_)
SetToSeq(S) == IF S = {} THEN <<>>
               ELSE LET x == CHOOSE y \in S : TRUE IN <<x>> \o SetToSeq(S \ {x})

SeqToSet(s) == {s[i] : i \in 1..Len(s)}

---------------------------------------------------------------------------
(* validators.py: the requirement matcher.                                 *)

\* fnmatch.fnmatchcase(name, pat) for patterns made of literals, * and ? .
RECURSIVE fnmatch(_, _)
fnmatch(name, pat) ==
    IF Len(pat) = 0 THEN Len(name) = 0
    ELSE IF pat[1] = "*"
         THEN fnmatch(name, Tail(pat)) \/ (Len(name) > 0 /\ fnmatch(Tail(name), pat))
    ELSE IF Len(name) = 0 THEN FALSE
    ELSE IF pat[1] = "?" THEN fnmatch(Tail(name), Tail(pat))
    ELSE pat[1] = name[1] /\ fnmatch(Tail(name), Tail(pat))

\* requirement_matches comparing case-sensitively (a faulty variant of it).
requirement_matches_case_sensitive(file, req) ==
    LET patterns == split(req.pattern, "|")
    IN  \E i \in 1..Len(patterns) : fnmatch(file.name, strip(patterns[i]))

\* Lines 184-185: whether a file matches one of the |-separated patterns.
requirement_matches(file, req) ==
    LET patterns == split(req.pattern, "|")
    IN  \E i \in 1..Len(patterns) : fnmatch(upper(file.name), upper(strip(patterns[i])))

\* The keys of a dictionary built from the requirements, in insertion order.
RECURSIVE dict_keys(_)
dict_keys(requirements) ==
    IF Len(requirements) = 0 THEN <<>>
    ELSE LET front == dict_keys(SubSeq(requirements, 1, Len(requirements) - 1))
             key == requirements[Len(requirements)].key
         IN  IF InSeq(key, front) THEN front ELSE front \o <<key>>

\* Lines 182-186: the files appended to results[key] from file i, requirement j on.
RECURSIVE appended(_, _, _, _, _)
appended(key, files, requirements, i, j) ==
    IF i > Len(files) THEN <<>>
    ELSE IF j > Len(requirements) THEN appended(key, files, requirements, i + 1, 1)
    ELSE (IF requirements[j].key = key /\ requirement_matches(files[i], requirements[j])
          THEN <<files[i].name>> ELSE <<>>)
         \o appended(key, files, requirements, i, j + 1)

\* find_required_artifacts: the dictionary as a sequence of (key, paths) items.
find_required_artifacts(files, requirements) ==
    LET keys == dict_keys(requirements)
    IN  [k \in 1..Len(keys) |->
            [key |-> keys[k], paths |-> appended(keys[k], files, requirements, 1, 1)]]

RECURSIVE missing_messages(_, _)
missing_messages(matches, i) ==
    IF i > Len(matches) THEN <<>>
    ELSE (IF matches[i].paths = <<>>
          THEN <<ValidationMessage(ERROR, "MissingRequiredArtifact", <<matches[i].key>>)>>
          ELSE <<>>)
         \o missing_messages(matches, i + 1)

validate_required(files, requirements) ==
    missing_messages(find_required_artifacts(files, requirements), 1)

---------------------------------------------------------------------------
(* validators.py: the batch validators.                                    *)

\* a or b, for optional ints: None and 0 are falsy.
IntOr(a, b) == IF a # NoInt /\ a # 0 THEN a ELSE b

\* What a batch validator produced: its messages, or the exception it raised.
Messages(messages) == [exc |-> NoExc, messages |-> messages]
MessagesRaised(e) == [exc |-> e, messages |-> <<>>]

\* Lines 240-256: the messages of validate_discipline_codes for one record.
discipline_messages_for(parsed, stage_key, allowed) ==
    (IF Truthy(parsed.stage_key) /\ parsed.stage_key # stage_key
     THEN <<ValidationMessage(ERROR, "StageMismatch",
                              <<parsed.source, parsed.stage, stage_key>>)>>
     ELSE <<>>)
    \o
    (IF allowed # <<>> /\ Truthy(parsed.discipline)
        /\ ~InSeq(upper(parsed.discipline), allowed)
     THEN <<ValidationMessage(ERROR, "DisciplineNotPermitted",
                              <<parsed.discipline, parsed.source, stage_key>>)>>
     ELSE <<>>)

RECURSIVE discipline_loop(_, _, _, _)
discipline_loop(parsed_files, i, stage_key, allowed) ==
    IF i > Len(parsed_files) THEN <<>>
    ELSE discipline_messages_for(parsed_files[i], stage_key, allowed)
         \o discipline_loop(parsed_files, i + 1, stage_key, allowed)

\* validate_discipline_codes; reading parsed.stage_key of a record that has no
\* such attribute raises AttributeError.
validate_discipline_codes(parsed_files, stage_key, stage_config, config) ==
    IF stage_config = NoStageConfig \/ ~config.checks.discipline_codes.enabled
    THEN Messages(<<>>)
    ELSE IF \E i \in 1..Len(parsed_files) : ~HasAttr(parsed_files[i], "stage_key")
    THEN MessagesRaised("AttributeError")
    ELSE Messages(discipline_loop(parsed_files, 1, stage_key,
                                  UpperAll(stage_config.discipline_codes)))

\* _normalize_token: lowercase, then drop every character outside [a-z0-9].
RECURSIVE keep_alnum(_)
keep_alnum(s) ==
    IF Len(s) = 0 THEN <<>>
    ELSE (IF InSeq(s[1], LowerAlpha) \/ InSeq(s[1], Digits) THEN <<s[1]>> ELSE <<>>)
         \o keep_alnum(Tail(s))

\* A faulty variant of normalize_token: the value is not lowercased first.
normalize_token_case_sensitive(value) == keep_alnum(value)

normalize_token(value) == keep_alnum(lower(value))

RECURSIVE forms_loop(_, _, _)
forms_loop(forms, i, normalized_files) ==
    IF i > Len(forms) THEN <<>>
    ELSE LET token == normalize_token(forms[i])
         IN  (IF token # <<>>
                 /\ ~\E n \in 1..Len(normalized_files) : Contains(token, normalized_files[n])
              THEN <<ValidationMessage(ERROR, "MissingForm", <<forms[i]>>)>>
              ELSE <<>>)
             \o forms_loop(forms, i + 1, normalized_files)

validate_indot_forms(files, stage_config, config) ==
    IF stage_config = NoStageConfig \/ ~config.checks.forms.enabled
    THEN <<>>
    ELSE IF stage_config.forms = <<>> THEN <<>>
    ELSE forms_loop(stage_config.forms, 1,
                    [n \in 1..Len(files) |-> normalize_token(files[n].name)])

\* The keys of a dictionary filled by setdefault(key, []).append(...), in
\* insertion order: the distinct keys of the sequence, by first occurrence.
RECURSIVE distinct_keys(_)
distinct_keys(keys) ==
    IF Len(keys) = 0 THEN <<>>
    ELSE LET front == distinct_keys(SubSeq(keys, 1, Len(keys) - 1))
         IN  IF InSeq(keys[Len(keys)], front) THEN front ELSE front \o <<keys[Len(keys)]>>

\* The elements of s that satisfy the test, in order.
RECURSIVE select(_, _, _)
select(s, kind, arg) ==
    IF Len(s) = 0 THEN <<>>
    ELSE (IF CASE kind = "ranged"     -> Truthy(s[1].discipline) /\ s[1].sheet_start # NoInt
               [] kind = "numbered"   -> s[1].sheet_start # NoInt
               [] kind = "discipline" -> s[1].discipline = arg
               [] kind = "group"      -> (IF Truthy(s[1].discipline) THEN s[1].discipline
                                          ELSE <<"U","N","K","N","O","W","N">>) = arg
          THEN <<s[1]>> ELSE <<>>)
         \o select(Tail(s), kind, arg)

\* A faulty variant of overlap_messages: ranges that share only their end
\* sheet are not taken to overlap.
RECURSIVE overlap_messages_strict(_, _, _)
overlap_messages_strict(discipline, sorted_ranges, i) ==
    IF i > Len(sorted_ranges) THEN <<>>
    ELSE LET prev == sorted_ranges[i - 1]
             current == sorted_ranges[i]
         IN  (IF current[1] < prev[2]
              THEN <<ValidationMessage(WARNING, "OverlappingSheets",
                        <<discipline, str(prev[1]), str(prev[2]),
                          str(current[1]), str(current[2])>>)>>
              ELSE <<>>)
             \o overlap_messages_strict(discipline, sorted_ranges, i + 1)

\* Lines 214-223: the overlap warnings of one discipline's sorted ranges.
RECURSIVE overlap_messages(_, _, _)
overlap_messages(discipline, sorted_ranges, i) ==
    IF i > Len(sorted_ranges) THEN <<>>
    ELSE LET prev == sorted_ranges[i - 1]
             current == sorted_ranges[i]
         IN  (IF current[1] <= prev[2]
              THEN <<ValidationMessage(WARNING, "OverlappingSheets",
                        <<discipline, str(prev[1]), str(prev[2]),
                          str(current[1]), str(current[2])>>)>>
              ELSE <<>>)
             \o overlap_messages(discipline, sorted_ranges, i + 1)

\* A faulty variant of duplicate_ranges_loop: the ranges are compared in the
\* order of the files, without sorting them.
RECURSIVE duplicate_ranges_loop_unsorted(_, _, _)
duplicate_ranges_loop_unsorted(disciplines, d, ranged) ==
    IF d > Len(disciplines) THEN <<>>
    ELSE LET mine == select(ranged, "discipline", disciplines[d])
             ranges == [k \in 1..Len(mine) |->
                          <<mine[k].sheet_start, IntOr(mine[k].sheet_end, mine[k].sheet_start)>>]
         IN  overlap_messages(disciplines[d], ranges, 2)
             \o duplicate_ranges_loop_unsorted(disciplines, d + 1, ranged)

RECURSIVE duplicate_ranges_loop(_, _, _)
duplicate_ranges_loop(disciplines, d, ranged) ==
    IF d > Len(disciplines) THEN <<>>
    ELSE LET mine == select(ranged, "discipline", disciplines[d])
             ranges == [k \in 1..Len(mine) |->
                          <<mine[k].sheet_start, IntOr(mine[k].sheet_end, mine[k].sheet_start)>>]
         IN  overlap_messages(disciplines[d], SortBy(ranges, "pair"), 2)
             \o duplicate_ranges_loop(disciplines, d + 1, ranged)

detect_duplicate_ranges(parsed_files) ==
    LET ranged == select(parsed_files, "ranged", <<>>)
        disciplines == distinct_keys([k \in 1..Len(ranged) |-> ranged[k].discipline])
    IN  duplicate_ranges_loop(disciplines, 1, ranged)

\* Lines 319-330: the continuity walk over one discipline's sorted records.
RECURSIVE continuity_messages(_, _, _, _, _)
continuity_messages(discipline, records, i, expected, width) ==
    IF i > Len(records) THEN <<>>
    ELSE LET record == records[i]
             jumps == record.sheet_start # expected
             expected1 == IF jumps THEN IntOr(record.sheet_start, expected) ELSE expected
             end_value == IntOr(record.sheet_end, IntOr(record.sheet_start, expected1))
         IN  (IF jumps
              THEN <<ValidationMessage(ERROR, "NumberingGap",
                        <<discipline, FormatInt(record.sheet_start, width), record.source,
                          FormatInt(expected, width)>>)>>
              ELSE <<>>)
             \o continuity_messages(discipline, records, i + 1, end_value + 1, width)

\* Lines 306-330: one discipline's starting-number warning and continuity errors.
numbering_messages_for(discipline, records, number_config) ==
    (IF number_config.starting_number # NoInt /\ records # <<>>
        /\ records[1].sheet_start # number_config.starting_number
     THEN <<ValidationMessage(WARNING, "StartingNumber",
               <<discipline, FormatInt(records[1].sheet_start, number_config.width),
                 FormatInt(number_config.starting_number, number_config.width)>>)>>
     ELSE <<>>)
    \o
    (IF number_config.require_contiguous
     THEN continuity_messages(discipline, records, 1, IntOr(records[1].sheet_start, 0),
                              number_config.width)
     ELSE <<>>)

RECURSIVE numbering_loop(_, _, _, _)
numbering_loop(groups, g, numbered, number_config) ==
    IF g > Len(groups) THEN <<>>
    ELSE numbering_messages_for(groups[g],
                                SortBy(select(numbered, "group", groups[g]), "start"),
                                number_config)
         \o numbering_loop(groups, g + 1, numbered, number_config)

\* A faulty variant of validate_sheet_numbering: the overlap sub-check sits
\* after the early return for an unconfigured continuity check.
validate_sheet_numbering_overlap_late(parsed_files, config) ==
    LET number_config == config.checks.sheet_numbering
    IN  IF ~number_config.enabled THEN <<>>
        ELSE IF ~number_config.require_contiguous /\ number_config.starting_number = NoInt
        THEN <<>>
        ELSE detect_duplicate_ranges(parsed_files)
             \o (LET numbered == select(parsed_files, "numbered", <<>>)
                     groups == distinct_keys(
                                 [k \in 1..Len(numbered) |->
                                    IF Truthy(numbered[k].discipline)
                                    THEN numbered[k].discipline
                                    ELSE <<"U","N","K","N","O","W","N">>])
                 IN  numbering_loop(groups, 1, numbered, number_config))

validate_sheet_numbering(parsed_files, config) ==
    LET number_config == config.checks.sheet_numbering
    IN  IF ~number_config.enabled THEN <<>>
        ELSE detect_duplicate_ranges(parsed_files)
             \o (IF ~number_config.require_contiguous /\ number_config.starting_number = NoInt
                 THEN <<>>
                 ELSE LET numbered == select(parsed_files, "numbered", <<>>)
                          groups == distinct_keys(
                                      [k \in 1..Len(numbered) |->
                                         IF Truthy(numbered[k].discipline)
                                         THEN numbered[k].discipline
                                         ELSE <<"U","N","K","N","O","W","N">>])
                      IN  numbering_loop(groups, 1, numbered, number_config))

\* packager.py:317: only the stage's required list is validated.
required_messages(files, stage_config) == validate_required(files, stage_config.required)

---------------------------------------------------------------------------
(* The values the checks draw their inputs from.                           *)

s_des == <<"2","4","0","1","4","9","0">>
s_Stage2 == <<"S","t","a","g","e","2">>
s_stage2 == <<"s","t","a","g","e","2">>
s_STAGE2 == <<"S","T","A","G","E","2">>
s_Stage3 == <<"S","t","a","g","e","3">>
s_Stage9 == <<"S","t","a","g","e","9">>
s_ROAD == <<"R","O","A","D">>
s_road == <<"r","o","a","d">>
s_BAD == <<"B","A","D">>
s_TITLE == <<"T","I","T","L","E">>
s_PLANS == <<"P","L","A","N","S">>
s_PLAN_SET == <<"P","L","A","N"," ","S","E","T">>
s_0001 == <<"0","0","0","1">>
s_0001_0003 == <<"0","0","0","1","-","0","0","0","3">>
s_0003_0001 == <<"0","0","0","3","-","0","0","0","1">>
s_1 == <<"1">>
s_00x1 == <<"0","0","x","1">>
s_0001_00x3 == <<"0","0","0","1","-","0","0","x","3">>
s_1_2_3 == <<"1","-","2","-","3">>
s_pdf == <<"p","d","f">>
s_PDF == <<"P","D","F">>
s_txt == <<"t","x","t">>
s_docx == <<"d","o","c","x">>
s_README_txt == <<"R","E","A","D","M","E",".","t","x","t">>
s_bad_TITLE_pdf == <<"b","a","d"," ","T","I","T","L","E",".","p","d","f">>
s_title_sheet == <<"t","i","t","l","e","_","s","h","e","e","t">>
s_plans == <<"p","l","a","n","s">>
s_pat_TITLE == <<"*","T","I","T","L","E","*",".","p","d","f">>
s_pat_PLANS == <<"*","P","L","A","N","S","*",".","p","d","f">>
s_pat_title_lc == <<"*","t","i","t","l","e","*",".","P","D","F">>
s_pat_alt == <<"*",".","t","x","t"," ","|"," ","*","P","L","A","N","S","*",".","p","d","f">>
s_pat_readme == <<"R","E","A","D","M","E",".","?","?","?">>
s_form_readme == <<"R","e","a","d","-","M","e">>
s_form_ic == <<"I","C","-","1","0","2">>
s_REQUIRED == <<"R","E","Q","U","I","R","E","D">>
s_FORBIDDEN == <<"F","O","R","B","I","D","D","E","N">>
s_text_ok == <<"o","k">>
s_text_required == <<"r","e","q","u","i","r","e","d">>
s_text_forbidden == <<"i","s"," ","f","o","r","b","i","d","d","e","n">>

\* RequirementConfig(key=..., pattern=...)
RequirementConfig(key, pattern) == [key |-> key, pattern |-> pattern]

\* The configuration of the tests' fixtures (tests/test_filenames.py:18-47), with
\* the defaults of config.py for what the fixture leaves out.
BaseConfig ==
    [ conventions |->
        [ regex |-> RegexStrict, exceptions |-> <<>>, stage_case_insensitive |-> TRUE,
          allow_spaces |-> FALSE, allowed_extensions |-> <<s_pdf, s_docx>> ],
      stages |->
        << StageEntry(s_Stage2,
             [StageArtifacts EXCEPT
                !.required = <<RequirementConfig(s_title_sheet, s_pat_TITLE)>>,
                !.discipline_codes = <<s_ROAD, s_TITLE>>]) >>,
      checks |->
        [ pdf_text_scan |-> [ enabled |-> FALSE, keywords_required |-> <<>>,
                              keywords_forbidden |-> <<>>, pages |-> 3,
                              require_all_keywords |-> TRUE ],
          sheet_limits |-> [ min_total_sheets |-> NoInt, max_total_sheets |-> NoInt ],
          discipline_codes |-> [ enabled |-> TRUE ],
          forms |-> [ enabled |-> TRUE ],
          sheet_numbering |-> [ enabled |-> TRUE, width |-> 4,
                                require_contiguous |-> FALSE, starting_number |-> NoInt ] ],
      packaging |-> [ include_checksums |-> TRUE ] ]

\* The variables a directly called function leaves alone.
PipelineIdle ==
    /\ pc = "call"
    /\ idx = 0
    /\ build = <<>>
    /\ result = <<>>
    /\ exc = NoExc
    /\ outputs = <<>>
    /\ archive = <<>>
    /\ gui = NoWindow

---------------------------------------------------------------------------
(* resolve_stage_config called on its own.                                 *)

StageKeyPool == {s_Stage2, s_stage2, s_Stage3}
StageTokens == {s_Stage2, s_stage2, s_STAGE2, s_Stage3, s_Stage9, None, <<>>}

\* The orders of distinct keys a stages dictionary of at most MaxStages entries can have.
StageKeyLists ==
    { d \in UNION { [1..n -> StageKeyPool] : n \in 1..MaxStages } :
        \A i, j \in 1..Len(d) : i # j => d[i] # d[j] }

\* A configuration whose stages are the given keys; each stage lists its own
\* key as a form, so that the stages differ.
ConfigWithStages(keys, case_insensitive) ==
    [BaseConfig EXCEPT
        !.stages = [i \in 1..Len(keys) |->
                      StageEntry(keys[i], [StageArtifacts EXCEPT !.forms = <<keys[i]>>])],
        !.conventions.stage_case_insensitive = case_insensitive]

InitStage ==
    /\ call \in { [op |-> "resolve_stage_config", stage_name |-> t,
                   config |-> ConfigWithStages(d, ci)] :
                  t \in StageTokens, d \in StageKeyLists, ci \in BOOLEAN }
    /\ ret = NotCalled
    /\ PipelineIdle

CallResolveStage ==
    /\ call.op = "resolve_stage_config"
    /\ ret = NotCalled
    /\ ret' = resolve_stage_config(call.stage_name, call.config)
    /\ UNCHANGED <<call, pc, idx, build, result, exc, outputs, archive, gui>>

SpecStage == InitStage /\ [][CallResolveStage]_vars

\* The keys of config.stages, in dictionary order.
StageKeys(config) == [i \in 1..Len(config.stages) |-> config.stages[i].key]

\* C10: stage resolution is exact first. For any stage token and configuration,
\* resolve_stage_config returns the configured key equal to the token whenever
\* there is one; a key equal to the token ignoring case only when no key equals it
\* exactly and stage_case_insensitive is set; and (None, None) otherwise, a null or
\* empty token included. It never raises.
C10_ExactFirst ==
    (call.op = "resolve_stage_config" /\ ret # NotCalled) =>
        LET name == call.stage_name
            keys == StageKeys(call.config)
            exact == Truthy(name) /\ InSeq(name, keys)
            folded == /\ Truthy(name)
                      /\ call.config.conventions.stage_case_insensitive
                      /\ \E i \in 1..Len(keys) : lower(keys[i]) = lower(name)
        IN  /\ exact => ret.key = name
            /\ (~exact /\ folded) => (ret.key # None /\ lower(ret.key) = lower(name))
            /\ (~exact /\ ~folded) => ret = [key |-> None, cfg |-> NoStageConfig]
            /\ ret.key # None =>
                 \E i \in 1..Len(keys) :
                     keys[i] = ret.key /\ ret.cfg = call.config.stages[i].cfg

---------------------------------------------------------------------------
(* parse_filename called on its own.                                       *)

NoFields == [none |-> TRUE]

\* Field values to build a file name from.
ParseFields ==
    [ des : {s_des},
      stage : {s_Stage2, s_stage2, s_Stage3},
      discipline : {s_ROAD, s_road, s_BAD},
      sheet_type : {s_PLANS, s_PLAN_SET},
      sheet_range : {s_0001, s_0001_0003, s_0003_0001, s_1, s_00x1, s_0001_00x3, s_1_2_3},
      ext : {s_pdf, s_PDF, s_txt} ]

NameOf(f) == FormatName(f.des, f.stage, f.discipline, f.sheet_type, f.sheet_range, f.ext)

\* Names that are not built from the pattern.
FreeNames == {s_README_txt, s_bad_TITLE_pdf}

ExceptionLists ==
    { <<>>,
      <<[name |-> "loose", regex |-> RegexLoose]>>,
      <<[name |-> "partial", regex |-> RegexPartial], [name |-> "loose", regex |-> RegexLoose]>> }

SheetNumberingConfigs ==
    { [enabled |-> e, width |-> w, require_contiguous |-> FALSE, starting_number |-> NoInt] :
        e \in BOOLEAN, w \in {1, 4} } 

ParseConfigs ==
    { [BaseConfig EXCEPT
         !.conventions.allow_spaces = sp,
         !.conventions.stage_case_insensitive = ci,
         !.conventions.exceptions = ex,
         !.checks.discipline_codes.enabled = dc,
         !.checks.sheet_numbering = sn] :
      sp \in BOOLEAN, ci \in BOOLEAN, ex \in ExceptionLists, dc \in BOOLEAN,
      sn \in SheetNumberingConfigs }

InitParse ==
    /\ call \in { [op |-> "parse_filename", path |-> NameOf(f), fields |-> f, config |-> c] :
                  f \in ParseFields, c \in ParseConfigs }
              \cup
                { [op |-> "parse_filename", path |-> n, fields |-> NoFields, config |-> c] :
                  n \in FreeNames, c \in ParseConfigs }
    /\ ret = NotCalled
    /\ PipelineIdle

CallParseFilename ==
    /\ call.op = "parse_filename"
    /\ ret = NotCalled
    /\ ret' = parse_filename(call.path, call.config)
    /\ UNCHANGED <<call, pc, idx, build, result, exc, outputs, archive, gui>>

SpecParse == InitParse /\ [][CallParseFilename]_vars

ParseReturned == call.op = "parse_filename" /\ ret # NotCalled

\* The two structural failures of a name under a configuration.
SpaceCase(name, config) == ~config.conventions.allow_spaces /\ HasChar(" ", name)
NoRegexMatches(name, config) ==
    /\ ~re_match(config.conventions.regex, name).matched
    /\ \A i \in 1..Len(config.conventions.exceptions) :
          ~re_match(config.conventions.exceptions[i].regex, name).matched

ValidFields(f, config) ==
    /\ f # NoFields
    /\ re_match(config.conventions.regex, NameOf(f)).matched
    /\ InSeq(f.stage, StageKeys(config))
    /\ LET sc == resolve_stage_config(f.stage, config).cfg
       IN  sc.discipline_codes = <<>> \/ InSeq(f.discipline, sc.discipline_codes)
    /\ LET c == split(f.sheet_range, "-")
       IN  /\ Len(c) \in {1, 2}
           /\ \A i \in 1..Len(c) :
                 /\ isdigit(c[i])
                 /\ (config.checks.sheet_numbering.enabled
                       => Len(c[i]) = config.checks.sheet_numbering.width)
           /\ Len(c) = 2 => int(c[1]) <= int(c[2])
    /\ InSeq(f.ext, config.conventions.allowed_extensions)

\* C4: round trip. For a name built with the pattern from valid field values,
\* parse_filename returns a record whose des, discipline, sheet_type, sheet_start,
\* sheet_end and ext are those values, whose stage is the stage token (lowercased
\* when stage_case_insensitive is set), whose stage_key is the configured key, and
\* returns no messages.
C4_RoundTrip ==
    (ParseReturned /\ ValidFields(call.fields, call.config)) =>
        LET f == call.fields
            c == split(f.sheet_range, "-")
        IN  /\ ret.exc = NoExc
            /\ ret.parsed # NoParsed
            /\ ret.parsed.des = f.des
            /\ ret.parsed.discipline = f.discipline
            /\ ret.parsed.sheet_type = f.sheet_type
            /\ ret.parsed.sheet_start = int(c[1])
            /\ ret.parsed.sheet_end = (IF Len(c) = 2 THEN int(c[2]) ELSE NoInt)
            /\ ret.parsed.ext = f.ext
            /\ ret.parsed.stage =
                 (IF call.config.conventions.stage_case_insensitive
                  THEN lower(f.stage) ELSE f.stage)
            /\ HasAttr(ret.parsed, "stage_key")
            /\ ret.parsed.stage_key = f.stage
            /\ ret.messages = <<>>

---------------------------------------------------------------------------
(* The scanned directory.                                                  *)

\* A file: its name, what pdf_page_count returns for it and the text
\* pdf_extract_text returns for it.
File(name, pages, text) == [name |-> name, pages |-> pages, text |-> text]

FileUniverse ==
    { File(FormatName(s_des, s_Stage2, s_ROAD, s_PLANS, s_1, s_pdf), 1, s_text_ok),
      File(FormatName(s_des, s_Stage2, s_BAD, s_PLANS, s_0001, s_pdf), 2, s_text_ok),
      File(FormatName(s_des, s_Stage2, s_TITLE, s_TITLE, s_0001, s_pdf), 1, s_text_required),
      File(FormatName(s_des, s_Stage2, s_ROAD, s_PLANS, s_0001_0003, s_pdf), 1, s_text_forbidden),
      File(s_README_txt, 0, <<>>),
      File(s_bad_TITLE_pdf, 1, s_text_forbidden) }

Directories == { d \in SUBSET FileUniverse : Cardinality(d) <= MaxFiles }

\* root.rglob("*"): the files of the directory in an order the file system
\* chooses, any of its enumerations.
rglob(directory) ==
    { listing \in [1..Cardinality(directory) -> directory] :
        \A i, j \in 1..Cardinality(directory) : i # j => listing[i] # listing[j] }

\* _gather_files without sorted() (a faulty variant of it).
gather_files_unsorted(listing) == listing
\* _gather_files: sorted(root.rglob("*")), every file kept (no ignore file, no
\* excluded path inside the directory).
gather_files(listing) == SortBy(listing, "file")

---------------------------------------------------------------------------
(* validate_required called as validate_directory calls it.                *)

RequirementPool ==
    { RequirementConfig(k, p) :
        k \in {s_title_sheet, s_plans},
        p \in {s_pat_TITLE, s_pat_title_lc, s_pat_alt, s_pat_readme} }

RequirementLists == UNION { [1..n -> RequirementPool] : n \in 0..MaxReqs }

OptionalLists == { <<>>, <<RequirementConfig(s_plans, s_pat_PLANS)>> }

InitRequired ==
    /\ call \in { [op |-> "validate_required", files |-> gather_files(SetToSeq(d)),
                   stage_config |-> [StageArtifacts EXCEPT !.required = r, !.optional = o]] :
                  d \in Directories, r \in RequirementLists, o \in OptionalLists }
    /\ ret = NotCalled
    /\ PipelineIdle

CallValidateRequired ==
    /\ call.op = "validate_required"
    /\ ret = NotCalled
    /\ ret' = [ matches |-> find_required_artifacts(call.files, call.stage_config.required),
                messages |-> required_messages(call.files, call.stage_config) ]
    /\ UNCHANGED <<call, pc, idx, build, result, exc, outputs, archive, gui>>

SpecRequired == InitRequired /\ [][CallValidateRequired]_vars

RequiredReturned == call.op = "validate_required" /\ ret # NotCalled

\* A file's name matches a sub-pattern, ignoring case.
GlobMatchesIgnoringCase(name, pattern) == fnmatch(lower(name), lower(strip(pattern)))

\* Some file matches some sub-pattern of some requirement of the list with this key.
KeySatisfied(key, requirements, files) ==
    \E r \in 1..Len(requirements) :
        /\ requirements[r].key = key
        /\ \E f \in 1..Len(files) :
              \E p \in SeqToSet(split(requirements[r].pattern, "|")) :
                  GlobMatchesIgnoringCase(files[f].name, p)

\* The position of the first requirement with this key.
FirstWithKey(key, requirements) ==
    CHOOSE r \in 1..Len(requirements) :
        requirements[r].key = key /\ \A q \in 1..(r - 1) : requirements[q].key # key

\* C9: a requirement key is satisfied exactly when some file matches, ignoring
\* case and under glob semantics, a sub-pattern of a requirement with that key;
\* validate_required emits exactly one missing-artifact error per required key no
\* file satisfies, in requirement order, none for a satisfied key, and none for
\* the optional requirements.
C9_RequirementMatching ==
    RequiredReturned =>
        LET required == call.stage_config.required
            files == call.files
            keys == {required[r].key : r \in 1..Len(required)}
            missing == {k \in keys : ~KeySatisfied(k, required, files)}
            msgs == ret.messages
        IN  /\ \A m \in 1..Len(ret.matches) :
                 (ret.matches[m].paths # <<>>)
                    <=> KeySatisfied(ret.matches[m].key, required, files)
            /\ {ret.matches[m].key : m \in 1..Len(ret.matches)} = keys
            /\ \A i \in 1..Len(msgs) :
                 /\ msgs[i].level = ERROR
                 /\ msgs[i].kind = "MissingRequiredArtifact"
                 /\ msgs[i].args[1] \in missing
            /\ \A k \in missing :
                 Cardinality({i \in 1..Len(msgs) : msgs[i].args = <<k>>}) = 1
            /\ \A i, j \in 1..Len(msgs) :
                 i < j => FirstWithKey(msgs[i].args[1], required)
                            < FirstWithKey(msgs[j].args[1], required)

\* One required key is missing, another is satisfied by two files, and an
\* optional requirement no file matches stays silent.
C9_Witness ==
    /\ RequiredReturned
    /\ Len(ret.messages) = 1
    /\ \E m \in 1..Len(ret.matches) : Len(ret.matches[m].paths) >= 2
    /\ call.stage_config.optional # <<>>
    /\ ~KeySatisfied(call.stage_config.optional[1].key, call.stage_config.optional, call.files)


---------------------------------------------------------------------------
(* models.py: ValidationResult; packager.py: ValidationFailure.            *)

\* ValidationResult(manifest=manifest)
ValidationResult(manifest) == [manifest |-> manifest, errors |-> <<>>, warnings |-> <<>>]

\* No ValidationResult exists before line 310 of validate_directory.
NoResult == [none |-> TRUE]

RECURSIVE of_level(_, _)
of_level(messages, level) ==
    IF Len(messages) = 0 THEN <<>>
    ELSE (IF messages[1].level = level THEN <<messages[1]>> ELSE <<>>)
         \o of_level(Tail(messages), level)

\* extend putting the new messages in front of the old ones (a faulty variant of it).
extend_in_front(res, messages) ==
    [res EXCEPT !.errors = of_level(messages, ERROR) \o @,
                !.warnings = of_level(messages, WARNING) \o @]
\* ValidationResult.extend: errors to errors, warnings to warnings, in order.
extend(res, messages) ==
    [res EXCEPT !.errors = @ \o of_level(messages, ERROR),
                !.warnings = @ \o of_level(messages, WARNING)]

has_errors(res) == res.errors # <<>>
has_warnings(res) == res.warnings # <<>>

\* ValidationFailure(result): the exception keeps the result it was raised for.
ValidationFailure(res) == [raised |-> "ValidationFailure", result |-> res]

\* ManifestEntry(**kwargs), for keywords the dataclass accepts.
ManifestEntry(kwargs) == [f \in ManifestEntryFields |-> kwargs[f]]

---------------------------------------------------------------------------
(* packager.py: validate_directory and _build_manifest, step by step.      *)

\* The position of a run and its locals: pc, the index of the scan, the
\* locals, the result and the exception that ended it.
Frame(p, i, b, r, e) == [pc |-> p, idx |-> i, build |-> b, result |-> r, exc |-> e]

\* The locals of a run before validate_directory has assigned any.
InitialLocals(config) ==
    [ config |-> config, files |-> <<>>, stage_key |-> None, stage_config |-> NoStageConfig,
      entries |-> <<>>, messages |-> <<>>, parsed_records |-> <<>>,
      missing_keywords |-> {}, forbidden_keywords |-> {} ]

\* An exception propagates out of validate_directory: nothing catches it.
raise(fr, e) == [fr EXCEPT !.pc = "raised", !.exc = e]

\* _build_manifest lines 80-89: the keyword sets of the text scan.
keyword_sets(config, stage_config) ==
    LET scan_config == config.checks.pdf_text_scan
    IN  IF ~scan_config.enabled THEN [required |-> {}, forbidden |-> {}]
        ELSE IF stage_config = NoStageConfig
        THEN [ required |-> SeqToSet(scan_config.keywords_required),
               forbidden |-> SeqToSet(scan_config.keywords_forbidden) ]
        ELSE [ required |-> SeqToSet(scan_config.keywords_required)
                            \cup SeqToSet(stage_config.keywords_required),
               forbidden |-> SeqToSet(scan_config.keywords_forbidden)
                             \cup SeqToSet(stage_config.keywords_forbidden) ]

\* validate_directory lines 306-308 and _build_manifest lines 74-89.
start_validation(fr, c) ==
    LET config == fr.build.config
        resolved == resolve_stage_config(c.stage, config)
        keywords == keyword_sets(config, resolved.cfg)
    IN  [fr EXCEPT
            !.pc = "scan", !.idx = 1,
            !.build = [InitialLocals(config) EXCEPT
                          !.files = gather_files(c.listing),
                          !.stage_key = resolved.key,
                          !.stage_config = resolved.cfg,
                          !.missing_keywords = keywords.required,
                          !.forbidden_keywords = keywords.forbidden]]

\* [kw for kw in sorted(forbidden) if kw.lower() in text_lower]
RECURSIVE keyword_hits(_, _)
keyword_hits(keywords, text_lower) ==
    IF Len(keywords) = 0 THEN <<>>
    ELSE (IF Contains(lower(keywords[1]), text_lower) THEN <<keywords[1]>> ELSE <<>>)
         \o keyword_hits(Tail(keywords), text_lower)

\* _build_manifest lines 96-142: the file has a parsed record.  The size and
\* the digest of a file are functions of its content, here its text.
record_file(fr, file, parsed, parse_messages) ==
    LET b == fr.build
        is_pdf == parsed.ext = s_pdf
        unreadable == is_pdf /\ file.pages = NoInt
        pages == IF is_pdf /\ ~unreadable THEN file.pages ELSE 0
        page_messages ==
            IF unreadable
            THEN <<ValidationMessage(WARNING, "FailedPages", <<file.name>>)>> ELSE <<>>
        kwargs ==
            [ relative_path |-> file.name, size_bytes |-> Len(file.text), pages |-> pages,
              checksum |-> file.text, checksum_algorithm |-> "sha256",
              des |-> parsed.des, stage |-> parsed.stage, discipline |-> parsed.discipline,
              sheet_type |-> parsed.sheet_type, sheet_start |-> parsed.sheet_start,
              sheet_end |-> parsed.sheet_end, ext |-> parsed.ext,
              source_modified |-> "mtime" ]
        scanned == b.config.checks.pdf_text_scan.enabled /\ is_pdf
        text_lower == lower(file.text)
        hits == keyword_hits(SortBy(SetToSeq(b.forbidden_keywords), "str"), text_lower)
        scan_messages ==
            IF scanned /\ hits # <<>>
            THEN <<ValidationMessage(ERROR, "ForbiddenKeywords", <<file.name>> \o hits)>>
            ELSE <<>>
    IN  IF ~ManifestEntryAccepts(kwargs) THEN raise(fr, "TypeError")
        ELSE [fr EXCEPT
                !.idx = @ + 1,
                !.build = [b EXCEPT
                    !.messages = @ \o parse_messages \o page_messages \o scan_messages,
                    !.parsed_records = Append(@, parsed),
                    !.entries = Append(@, ManifestEntry(kwargs)),
                    !.missing_keywords =
                        IF scanned
                        THEN { k \in @ : ~Contains(lower(k), text_lower) } ELSE @]]

\* A faulty variant of scan_file: a file that does not parse is skipped
\* before its messages are collected.
scan_file_dropping_messages(fr) ==
    LET file == fr.build.files[fr.idx]
        parsed == parse_filename(file.name, fr.build.config)
    IN  IF parsed.exc # NoExc THEN raise(fr, parsed.exc)
        ELSE IF parsed.parsed = NoParsed
        THEN [fr EXCEPT !.idx = @ + 1]
        ELSE record_file(fr, file, parsed.parsed, parsed.messages)

\* _build_manifest lines 91-95: one turn of the loop over the files.
scan_file(fr) ==
    LET file == fr.build.files[fr.idx]
        parsed == parse_filename(file.name, fr.build.config)
    IN  IF parsed.exc # NoExc THEN raise(fr, parsed.exc)
        ELSE IF parsed.parsed = NoParsed
        THEN [fr EXCEPT !.idx = @ + 1, !.build.messages = @ \o parsed.messages]
        ELSE record_file(fr, file, parsed.parsed, parsed.messages)

\* _build_manifest lines 144-153, then validate_directory lines 310-311.
finish_manifest(fr) ==
    LET b == fr.build
        scan_config == b.config.checks.pdf_text_scan
        messages ==
            b.messages \o
            (IF scan_config.enabled /\ b.missing_keywords # {}
             THEN <<ValidationMessage(
                      IF scan_config.require_all_keywords THEN ERROR ELSE WARNING,
                      "MissingKeywords", SortBy(SetToSeq(b.missing_keywords), "str"))>>
             ELSE <<>>)
    IN  [fr EXCEPT !.pc = "stage", !.build.messages = messages,
                   !.result = extend(ValidationResult(b.entries), messages)]

\* validate_directory lines 313-315: an unconfigured target stage returns at once.
check_stage(fr, c) ==
    IF fr.build.stage_key = None \/ fr.build.stage_config = NoStageConfig
    THEN [fr EXCEPT !.pc = "returned",
                    !.result.errors =
                        Append(@, ValidationMessage(ERROR, "StageNotDefined", <<c.stage>>))]
    ELSE [fr EXCEPT !.pc = "required"]

\* Lines 317-318.
check_required(fr) ==
    [fr EXCEPT !.pc = "discipline",
               !.result = extend(@, required_messages(fr.build.files, fr.build.stage_config))]

\* Line 320.
check_disciplines(fr) ==
    LET b == fr.build
        checked == validate_discipline_codes(b.parsed_records, b.stage_key,
                                             b.stage_config, b.config)
    IN  IF checked.exc # NoExc THEN raise(fr, checked.exc)
        ELSE [fr EXCEPT !.pc = "forms", !.result = extend(@, checked.messages)]

\* Line 321.
check_forms(fr) ==
    [fr EXCEPT !.pc = "numbering",
               !.result = extend(@, validate_indot_forms(fr.build.files,
                                                          fr.build.stage_config,
                                                          fr.build.config))]

\* Line 322.
check_numbering(fr) ==
    [fr EXCEPT !.pc = "limits",
               !.result = extend(@, validate_sheet_numbering(fr.build.parsed_records,
                                                              fr.build.config))]

\* _summarize: sum(entry.pages for entry in entries).
RECURSIVE total_pages(_)
total_pages(entries) ==
    IF Len(entries) = 0 THEN 0 ELSE entries[1].pages + total_pages(Tail(entries))

\* Lines 324-339: the minimum is a warning, the maximum an error; a limit of
\* None or 0 is not checked.
check_limits(fr) ==
    LET limits == fr.build.config.checks.sheet_limits
        total == total_pages(fr.build.entries)
        below == limits.min_total_sheets # NoInt /\ limits.min_total_sheets # 0
                 /\ total < limits.min_total_sheets
        above == limits.max_total_sheets # NoInt /\ limits.max_total_sheets # 0
                 /\ total > limits.max_total_sheets
    IN  [fr EXCEPT
            !.pc = "strict",
            !.result.warnings =
                IF below
                THEN Append(@, ValidationMessage(WARNING, "BelowMinimum",
                                   <<str(total), str(limits.min_total_sheets)>>))
                ELSE @,
            !.result.errors =
                IF above
                THEN Append(@, ValidationMessage(ERROR, "AboveMaximum",
                                   <<str(total), str(limits.max_total_sheets)>>))
                ELSE @]

\* ValidationMessage(MessageLevel.ERROR, warn.text) for each warning.
as_errors(warnings) ==
    [i \in 1..Len(warnings) |-> ValidationMessage(ERROR, warnings[i].kind, warnings[i].args)]

\* escalate_warnings without the warnings.clear() of line 353 (a faulty variant of it).
escalate_warnings_keeping_them(fr, c) ==
    IF c.strict /\ has_warnings(fr.result)
    THEN [fr EXCEPT !.pc = "returned",
                    !.result.errors = @ \o as_errors(fr.result.warnings)]
    ELSE [fr EXCEPT !.pc = "returned"]
\* Lines 350-355 (map_file is None): strict moves the warnings to the errors.
escalate_warnings(fr, c) ==
    IF c.strict /\ has_warnings(fr.result)
    THEN [fr EXCEPT !.pc = "returned",
                    !.result.errors = @ \o as_errors(fr.result.warnings),
                    !.result.warnings = <<>>]
    ELSE [fr EXCEPT !.pc = "returned"]

\* The step validate_directory takes from a position.
validation_step(fr, c) ==
    CASE fr.pc = "start"      -> start_validation(fr, c)
      [] fr.pc = "scan"       -> IF fr.idx <= Len(fr.build.files)
                                 THEN scan_file(fr) ELSE finish_manifest(fr)
      [] fr.pc = "stage"      -> check_stage(fr, c)
      [] fr.pc = "required"   -> check_required(fr)
      [] fr.pc = "discipline" -> check_disciplines(fr)
      [] fr.pc = "forms"      -> check_forms(fr)
      [] fr.pc = "numbering"  -> check_numbering(fr)
      [] fr.pc = "limits"     -> check_limits(fr)
      [] fr.pc = "strict"     -> escalate_warnings(fr, c)

\* validate_directory run to its end: the frame it returns or raises with.
RECURSIVE run_validation(_, _)
run_validation(fr, c) ==
    IF fr.pc \in {"returned", "raised"} THEN fr
    ELSE run_validation(validation_step(fr, c), c)

\* The arguments of validate_directory with the enumeration rglob yields.
Listed(listing, stage, strict) == [listing |-> listing, stage |-> stage, strict |-> strict]

validate_directory(directory, config, stage, strict) ==
    run_validation(Frame("start", 0, InitialLocals(config), NoResult, NoExc),
                   Listed(SetToSeq(directory), stage, strict))


---------------------------------------------------------------------------
(* packager.py: run_package.                                               *)

\* Lines 455-457: load_config, then --no-scan switches the text scan off.
load_config(config, no_scan) ==
    IF no_scan THEN [config EXCEPT !.checks.pdf_text_scan.enabled = FALSE] ELSE config

\* run_package without the has_errors check of lines 468-469 (a faulty variant of it).
raise_on_errors_never(fr) == [fr EXCEPT !.pc = "mkdir"]
\* Lines 468-469: a result with errors raises ValidationFailure.
raise_on_errors(fr) ==
    IF has_errors(fr.result)
    THEN [fr EXCEPT !.pc = "failed", !.exc = "ValidationFailure"]
    ELSE [fr EXCEPT !.pc = "mkdir"]

\* Lines 471-476: _assign_package_paths sets entry.package_path, which is not
\* a declared field of ManifestEntry.
assign_package_paths(fr) ==
    IF \E i \in 1..Len(fr.result.manifest) : ~HasAttr(fr.result.manifest[i], "package_path")
    THEN raise(fr, "AttributeError")
    ELSE [fr EXCEPT !.pc = "manifest_csv"]

---------------------------------------------------------------------------
(* The pipeline: validate_directory called on its own (run_validate) or    *)
(* from run_package, which then packages.                                  *)

\* The variants of the fixture configuration the runs use: the text scan off,
\* on with all keywords required, on with missing keywords only warned about;
\* with and without a minimum of sheets, a required artifact, a required form.
ScanConfigs ==
    { [BaseConfig.checks.pdf_text_scan EXCEPT
          !.enabled = e, !.require_all_keywords = a,
          !.keywords_required = <<s_REQUIRED>>, !.keywords_forbidden = <<s_FORBIDDEN>>] :
      e \in BOOLEAN, a \in BOOLEAN } \ 
    { [BaseConfig.checks.pdf_text_scan EXCEPT
          !.enabled = FALSE, !.require_all_keywords = FALSE,
          !.keywords_required = <<s_REQUIRED>>, !.keywords_forbidden = <<s_FORBIDDEN>>] }

RunConfigs ==
    { [BaseConfig EXCEPT
          !.checks.pdf_text_scan = scan,
          !.checks.sheet_limits.min_total_sheets = min,
          !.stages = <<StageEntry(s_Stage2,
                         [StageArtifacts EXCEPT
                             !.required = required, !.forms = forms,
                             !.discipline_codes = <<s_ROAD, s_TITLE>>])>>] :
      scan \in ScanConfigs, min \in {NoInt, 1},
      required \in {<<>>, <<RequirementConfig(s_title_sheet, s_pat_TITLE),
                            RequirementConfig(s_plans, s_pat_PLANS)>>},
      forms \in {<<>>, <<s_form_readme, s_form_ic>>} }

RunStages == {s_Stage2, s_stage2, s_Stage9}

RunCalls ==
    { [op |-> o.op, directory |-> d, config |-> config, stage |-> stage,
       strict |-> strict, no_scan |-> o.no_scan] :
      o \in { [op |-> "validate_directory", no_scan |-> FALSE],
              [op |-> "run_package", no_scan |-> FALSE],
              [op |-> "run_package", no_scan |-> TRUE] },
      d \in Directories, config \in RunConfigs, stage \in RunStages, strict \in BOOLEAN }

Init ==
    /\ call \in RunCalls
    /\ ret = NotCalled
    /\ pc = IF call.op = "run_package" THEN "load" ELSE "start"
    /\ idx = 0
    /\ build = InitialLocals(call.config)
    /\ result = NoResult
    /\ exc = NoExc
    /\ outputs = <<>>
    /\ archive = <<>>
    /\ gui = NoWindow

Current == Frame(pc, idx, build, result, exc)

Install(fr) ==
    /\ pc' = fr.pc
    /\ idx' = fr.idx
    /\ build' = fr.build
    /\ result' = fr.result
    /\ exc' = fr.exc

LoadConfig ==
    /\ pc = "load"
    /\ pc' = "start"
    /\ build' = [build EXCEPT !.config = load_config(call.config, call.no_scan)]
    /\ UNCHANGED <<call, ret, idx, result, exc, outputs, archive, gui>>

StartValidation ==
    /\ pc = "start"
    /\ \E listing \in rglob(call.directory) :
          Install(start_validation(Current, Listed(listing, call.stage, call.strict)))
    /\ UNCHANGED <<call, ret, outputs, archive, gui>>

ScanFile ==
    /\ pc = "scan"
    /\ idx <= Len(build.files)
    /\ Install(scan_file(Current))
    /\ UNCHANGED <<call, ret, outputs, archive, gui>>

FinishManifest ==
    /\ pc = "scan"
    /\ idx > Len(build.files)
    /\ Install(finish_manifest(Current))
    /\ UNCHANGED <<call, ret, outputs, archive, gui>>

CheckStage ==
    /\ pc = "stage"
    /\ Install(check_stage(Current, call))
    /\ UNCHANGED <<call, ret, outputs, archive, gui>>

CheckRequired ==
    /\ pc = "required"
    /\ Install(check_required(Current))
    /\ UNCHANGED <<call, ret, outputs, archive, gui>>

CheckDisciplines ==
    /\ pc = "discipline"
    /\ Install(check_disciplines(Current))
    /\ UNCHANGED <<call, ret, outputs, archive, gui>>

CheckForms ==
    /\ pc = "forms"
    /\ Install(check_forms(Current))
    /\ UNCHANGED <<call, ret, outputs, archive, gui>>

CheckNumbering ==
    /\ pc = "numbering"
    /\ Install(check_numbering(Current))
    /\ UNCHANGED <<call, ret, outputs, archive, gui>>

CheckLimits ==
    /\ pc = "limits"
    /\ Install(check_limits(Current))
    /\ UNCHANGED <<call, ret, outputs, archive, gui>>

EscalateWarnings ==
    /\ pc = "strict"
    /\ Install(escalate_warnings(Current, call))
    /\ UNCHANGED <<call, ret, outputs, archive, gui>>

\* run_package lines 468-469, once validate_directory has returned.
RaiseOnErrors ==
    /\ call.op = "run_package"
    /\ pc = "returned"
    /\ Install(raise_on_errors(Current))
    /\ ret' = IF pc' = "failed" THEN ValidationFailure(result) ELSE ret
    /\ UNCHANGED <<call, outputs, archive, gui>>

\* Lines 471-476: the output directory, then the package paths.
MakeOutputDir ==
    /\ pc = "mkdir"
    /\ outputs' = Append(outputs, "out_dir")
    /\ Install(assign_package_paths(Current))
    /\ UNCHANGED <<call, ret, archive, gui>>

\* Lines 478-479.
WriteManifest ==
    /\ pc = "manifest_csv"
    /\ outputs' = Append(outputs, "manifest_csv")
    /\ pc' = "checksums"
    /\ UNCHANGED <<call, ret, idx, build, result, exc, archive, gui>>

\* Lines 499-507.
WriteChecksums ==
    /\ pc = "checksums"
    /\ outputs' = IF build.config.packaging.include_checksums
                  THEN Append(outputs, "checksums") ELSE outputs
    /\ pc' = "documents"
    /\ UNCHANGED <<call, ret, idx, build, result, exc, archive, gui>>

\* Lines 515-579 (log_path is None): the transmittal and the report.
GenerateDocuments ==
    /\ pc = "documents"
    /\ outputs' = outputs \o <<"transmittal", "report">>
    /\ pc' = "zip"
    /\ UNCHANGED <<call, ret, idx, build, result, exc, archive, gui>>

\* _build_zip_entries: the manifest files under their package paths, then the
\* generated files (they all exist) under the folder for generated files.
build_zip_entries(entries, generated_files) ==
    [i \in 1..Len(entries) |->
        [source |-> entries[i].relative_path, arcname |-> entries[i].package_path]]
    \o [i \in 1..Len(generated_files) |->
          [source |-> generated_files[i], arcname |-> <<"0_Admin", generated_files[i]>>]]

\* Lines 497-550: the files run_package registered as generated, in order.
generated_files(written) ==
    LET RECURSIVE registered(_)
        registered(w) ==
            IF Len(w) = 0 THEN <<>>
            ELSE (IF w[1] \in {"manifest_csv", "checksums", "transmittal", "report"}
                  THEN <<w[1]>> ELSE <<>>) \o registered(Tail(w))
    IN  registered(written)

\* Lines 552-554 and 581-594: the archive, then the result is returned.
CreateZip ==
    /\ pc = "zip"
    /\ outputs' = Append(outputs, "zip")
    /\ archive' = build_zip_entries(result.manifest, generated_files(outputs))
    /\ pc' = "packaged"
    /\ ret' = result
    /\ UNCHANGED <<call, idx, build, result, exc, gui>>

Next ==
    \/ LoadConfig
    \/ StartValidation
    \/ ScanFile
    \/ FinishManifest
    \/ CheckStage
    \/ CheckRequired
    \/ CheckDisciplines
    \/ CheckForms
    \/ CheckNumbering
    \/ CheckLimits
    \/ EscalateWarnings
    \/ RaiseOnErrors
    \/ MakeOutputDir
    \/ WriteManifest
    \/ WriteChecksums
    \/ GenerateDocuments
    \/ CreateZip

Spec == Init /\ [][Next]_vars

\* validate_directory has ended: it returned, or an exception left it.
ValidationRaised == pc = "raised" /\ outputs = <<>>
ValidationEnded == pc = "returned" \/ ValidationRaised

\* The same call without strict, and with strict, run to its end.
PlainRun == validate_directory(call.directory, build.config, call.stage, FALSE)
StrictRun == validate_directory(call.directory, build.config, call.stage, TRUE)
TypeOK ==
    /\ pc \in {"load", "start", "scan", "stage", "required", "discipline", "forms",
               "numbering", "limits", "strict", "returned", "raised", "failed", "mkdir",
               "manifest_csv", "checksums", "documents", "zip", "packaged"}
    /\ exc \in {NoExc, "AttributeError", "TypeError", "ValueError", "ValidationFailure"}


---------------------------------------------------------------------------
(* The claims about validate_directory and run_package.                    *)

\* C1: validate_directory always ends by returning a ValidationResult: what
\* it detects in a file name becomes a message, and no parsing or validation
\* step raises an exception that aborts the run.
C1_ValidationReturns == ~ValidationRaised

\* The names of the files that have no structural failure, in scan order.
RECURSIVE parsed_names(_, _)
parsed_names(files, config) ==
    IF Len(files) = 0 THEN <<>>
    ELSE (IF SpaceCase(files[1].name, config) \/ NoRegexMatches(files[1].name, config)
          THEN <<>> ELSE <<files[1].name>>)
         \o parsed_names(Tail(files), config)

\* C2: once validate_directory has ended, the manifest holds exactly one entry
\* per scanned file without a structural failure (space not allowed, no regex
\* match), in scan order, a file with only field-level errors included; and
\* the error of every file with a structural failure is kept in the result.
C2_ManifestPerParsedFile ==
    ValidationEnded =>
        /\ pc = "returned"
        /\ [i \in 1..Len(result.manifest) |-> result.manifest[i].relative_path]
              = parsed_names(build.files, build.config)
        /\ \A i \in 1..Len(build.files) :
              LET name == build.files[i].name
              IN  /\ SpaceCase(name, build.config) =>
                        \E e \in 1..Len(result.errors) :
                            result.errors[e].kind = "SpaceNotAllowed"
                            /\ result.errors[e].args = <<name>>
                  /\ (~SpaceCase(name, build.config) /\ NoRegexMatches(name, build.config)) =>
                        \E e \in 1..Len(result.errors) :
                            result.errors[e].kind = "PatternMismatch"
                            /\ result.errors[e].args = <<name>>

\* How many messages of a list have the text of the given message.
Occurrences(message, messages) ==
    Cardinality({ i \in 1..Len(messages) :
                    messages[i].kind = message.kind /\ messages[i].args = message.args })

\* C5: whenever validate_directory returns from a call with strict, whatever
\* the files, the configuration and the target stage (a stage that is not
\* configured included), the warning list of the result is empty and every
\* message that was a warning appears exactly once in the error list.
C5_StrictLeavesNoWarning ==
    (call.strict /\ pc = "returned") =>
        /\ result.warnings = <<>>
        /\ \A w \in 1..Len(PlainRun.result.warnings) :
              Occurrences(PlainRun.result.warnings[w], result.errors) = 1

\* C6: for the same files, configuration and target stage, the run with
\* strict and the run without it return the same total number of messages,
\* the errors of the run without strict are a prefix of the errors of the run
\* with strict, and no error of the run without strict is a warning of the
\* run with strict.
C6_StrictMonotone ==
    pc = "returned" =>
        LET other == IF call.strict THEN PlainRun ELSE StrictRun
            strict == IF call.strict THEN result ELSE other.result
            plain == IF call.strict THEN other.result ELSE result
        IN  /\ other.pc = "returned"
            /\ Len(strict.errors) + Len(strict.warnings)
                  = Len(plain.errors) + Len(plain.warnings)
            /\ Len(plain.errors) <= Len(strict.errors)
            /\ SubSeq(strict.errors, 1, Len(plain.errors)) = plain.errors
            /\ \A e \in 1..Len(plain.errors) :
                  Occurrences(plain.errors[e], strict.warnings) = 0

\* A run with strict returned with its warnings moved behind the errors of the
\* run without strict.
C6_Witness ==
    /\ pc = "returned"
    /\ call.strict
    /\ PlainRun.result.warnings # <<>>
    /\ result.warnings = <<>>
    /\ result.errors = PlainRun.result.errors \o as_errors(PlainRun.result.warnings)

\* The positions of run_package after the check of has_errors has let it pass.
PackagingPositions == {"mkdir", "manifest_csv", "checksums", "documents", "zip", "packaged"}

\* C7: in run_package a result with at least one error raises
\* ValidationFailure carrying that result before the output directory, the
\* manifest CSV, the checksum file, the transmittal, the report or the archive
\* exists; with strict a warning blocks packaging as an error does; and a run
\* is refused only for errors, so that without strict a result with warnings
\* and no errors goes on to be packaged.
C7_ErrorsBlockPackaging ==
    call.op = "run_package" =>
        /\ (pc \in PackagingPositions \/ outputs # <<>>) => result.errors = <<>>
        /\ pc = "failed" =>
              /\ result.errors # <<>>
              /\ outputs = <<>>
              /\ exc = "ValidationFailure"
              /\ ret = ValidationFailure(result)
        /\ (call.strict /\ pc \in PackagingPositions) =>
              (result.warnings = <<>> /\ PlainRun.result.warnings = <<>>)
        /\ pc = "raised" => outputs = <<>>
        /\ pc = "packaged" =>
              outputs = <<"out_dir", "manifest_csv">>
                        \o (IF build.config.packaging.include_checksums
                            THEN <<"checksums">> ELSE <<>>)
                        \o <<"transmittal", "report", "zip">>

\* A run with strict was refused for a warning alone: without strict the same
\* call has no error.
C7_Witness ==
    /\ call.op = "run_package"
    /\ pc = "failed"
    /\ call.strict
    /\ outputs = <<>>
    /\ PlainRun.result.errors = <<>>
    /\ PlainRun.result.warnings # <<>>

\* A run without strict was packaged although its result has a warning.
C7_PackagedWithWarnings ==
    /\ call.op = "run_package"
    /\ pc = "packaged"
    /\ ~call.strict
    /\ result.warnings # <<>>

\* The scanned files a regex matches with a discipline outside the whitelist
\* of the target stage.
OutsideWhitelist(file) ==
    LET match == first_match(build.config, file.name)
    IN  /\ ~SpaceCase(file.name, build.config)
        /\ match.matched
        /\ "discipline" \in DOMAIN match.groupdict
        /\ ~InSeq(upper(match.groupdict.discipline),
                  UpperAll(build.stage_config.discipline_codes))

\* C8: with the discipline check enabled and a non-empty whitelist for the
\* target stage, once validate_directory has ended each parsed file whose
\* discipline is outside the whitelist has exactly one discipline error in the
\* result (not one from parsing and one from the batch validator) and has its
\* manifest entry.
C8_OneDisciplineError ==
    ( /\ ValidationEnded
      /\ build.config.checks.discipline_codes.enabled
      /\ build.stage_config # NoStageConfig
      /\ build.stage_config.discipline_codes # <<>> ) =>
        \A i \in 1..Len(build.files) :
            OutsideWhitelist(build.files[i]) =>
                /\ pc = "returned"
                /\ Cardinality({ e \in 1..Len(result.errors) :
                        /\ result.errors[e].kind
                              \in {"DisciplineNotValid", "DisciplineNotPermitted"}
                        /\ result.errors[e].args[1]
                              = upper(first_match(build.config,
                                                  build.files[i].name).groupdict.discipline) })
                      = 1
                /\ \E m \in 1..Len(result.manifest) :
                      result.manifest[m].relative_path = build.files[i].name


---------------------------------------------------------------------------
(* The order of the messages of a result.                                  *)

\* The step of the pipeline a message comes from, by its text: 1 the scan of
\* _build_manifest, 2 the stage check, 3 the required artifacts, 4 the
\* discipline codes, 5 the forms, 6 the sheet numbering, 7 the sheet limits.
StageOf(message) ==
    CASE message.kind \in {"SpaceNotAllowed", "PatternMismatch", "ExtensionNotAllowed",
                           "UnconfiguredStage", "DisciplineNotValid", "NonNumericSheet",
                           "SheetWidthMismatch", "InvertedRange", "FailedPages",
                           "ForbiddenKeywords", "MissingKeywords"} -> 1
      [] message.kind = "StageNotDefined" -> 2
      [] message.kind = "MissingRequiredArtifact" -> 3
      [] message.kind \in {"StageMismatch", "DisciplineNotPermitted"} -> 4
      [] message.kind = "MissingForm" -> 5
      [] message.kind \in {"OverlappingSheets", "NumberingGap", "StartingNumber"} -> 6
      [] message.kind \in {"BelowMinimum", "AboveMaximum"} -> 7

InPipelineOrder(messages) ==
    \A i, j \in 1..Len(messages) : i < j => StageOf(messages[i]) <= StageOf(messages[j])

\* The file a parse message is about (the last value of its text, or the only one).
RECURSIVE FilesInScanOrder(_, _, _)
FilesInScanOrder(messages, files, from) ==
    IF Len(messages) = 0 THEN TRUE
    ELSE LET at == { f \in from..Len(files) :
                       files[f].name = messages[1].args[Len(messages[1].args)] }
         IN  /\ at # {}
             /\ FilesInScanOrder(Tail(messages), files, CHOOSE f \in at : \A g \in at : f <= g)

\* The messages of the named kinds, in the order of the list.
RECURSIVE of_kinds(_, _)
of_kinds(messages, kinds) ==
    IF Len(messages) = 0 THEN <<>>
    ELSE (IF messages[1].kind \in kinds THEN <<messages[1]>> ELSE <<>>)
         \o of_kinds(Tail(messages), kinds)

---------------------------------------------------------------------------
(* Determinism.                                                            *)

\* validate_directory run again over the same directory, the file system
\* enumerating its files in the given order.
RunOver(listing) ==
    run_validation(Frame("start", 0, InitialLocals(build.config), NoResult, NoExc),
                   Listed(listing, call.stage, call.strict))

\* C12: a validation run over the same files with the same configuration,
\* stage and options returns the same error list, the same warning list and
\* the same manifest, whatever the order in which the file system enumerates
\* the files; the files are visited in sorted order.
C12_Deterministic ==
    ValidationEnded =>
        /\ \A i, j \in 1..Len(build.files) :
              i < j => StrLess(build.files[i].name, build.files[j].name)
        /\ \A listing \in rglob(call.directory) :
              LET again == RunOver(listing)
              IN  /\ again.pc = pc
                  /\ again.exc = exc
                  /\ again.result = result

\* A run over two files returned a message for each, in sorted order.
C12_Witness ==
    /\ pc = "returned"
    /\ Len(build.files) = 2
    /\ Cardinality(rglob(call.directory)) = 2
    /\ Len(of_kinds(result.errors, {"SpaceNotAllowed", "PatternMismatch"})) = 2


---------------------------------------------------------------------------
(* A conforming directory.                                                 *)

\* The file name matches the grammar with valid field values and the stage
\* under validation.
Conforming(file) ==
    LET match == re_match(build.config.conventions.regex, file.name)
    IN  /\ ~SpaceCase(file.name, build.config)
        /\ match.matched
        /\ ValidFields(match.groupdict, build.config)
        /\ match.groupdict.stage = build.stage_key

RECURSIVE PagesOf(_)
PagesOf(files) == IF Len(files) = 0 THEN 0 ELSE files[1].pages + PagesOf(Tail(files))

\* C13: when every scanned file conforms (grammar, target stage, allowed
\* extension, width-correct sheet numbers) and every required key of the stage
\* is matched (no form required, no text scan, no strict), validate_directory
\* returns zero errors and the page total of its manifest is the sum of the
\* page counts of the files, not the sheet counts of their names.
C13_NoFalseErrors ==
    ( /\ ValidationEnded
      /\ build.stage_config # NoStageConfig
      /\ \A i \in 1..Len(build.files) : Conforming(build.files[i])
      /\ \A r \in 1..Len(build.stage_config.required) :
            KeySatisfied(build.stage_config.required[r].key,
                         build.stage_config.required, build.files)
      /\ build.stage_config.forms = <<>>
      /\ ~build.config.checks.pdf_text_scan.enabled
      /\ ~call.strict ) =>
        /\ pc = "returned"
        /\ result.errors = <<>>
        /\ Len(result.manifest) = Len(build.files)
        /\ total_pages(result.manifest) = PagesOf(build.files)


---------------------------------------------------------------------------
(* The keyword scan.                                                       *)

\* A scanned file that has a parsed record and is a PDF.
ParsedPdf(file) ==
    /\ ~SpaceCase(file.name, build.config)
    /\ ~NoRegexMatches(file.name, build.config)
    /\ lower(Get(first_match(build.config, file.name).groupdict, "ext")) = s_pdf

TextHas(file, keyword) == Contains(lower(keyword), lower(file.text))

KeywordMessages(messages) == of_kinds(messages, {"ForbiddenKeywords", "MissingKeywords"})

\* C14: with the scan enabled, once validate_directory has ended each parsed
\* PDF whose text contains a forbidden keyword (ignoring case) has exactly one
\* forbidden-keyword error naming it and a parsed PDF without one has none; a
\* required keyword is missing only if no parsed PDF contains it; with the
\* scan disabled the result has no keyword message.
C14_KeywordScan ==
    ValidationEnded =>
        LET scan_config == build.config.checks.pdf_text_scan
            forbidden == SeqToSet(scan_config.keywords_forbidden)
            required == SeqToSet(scan_config.keywords_required)
            pdfs == { i \in 1..Len(build.files) : ParsedPdf(build.files[i]) }
            missing == { k \in required : \A i \in pdfs : ~TextHas(build.files[i], k) }
        IN  IF ~scan_config.enabled
            THEN pc = "returned" =>
                    KeywordMessages(result.errors \o result.warnings) = <<>>
            ELSE /\ \A i \in pdfs :
                       /\ pc = "returned"
                       /\ Cardinality({ e \in 1..Len(result.errors) :
                              /\ result.errors[e].kind = "ForbiddenKeywords"
                              /\ result.errors[e].args[1] = build.files[i].name })
                            = IF \E k \in forbidden : TextHas(build.files[i], k) THEN 1 ELSE 0
                 /\ pc = "returned" =>
                       (of_kinds(result.errors \o result.warnings, {"MissingKeywords"}) # <<>>
                          <=> missing # {})


---------------------------------------------------------------------------
(* config.py: load_config, Config and StageArtifacts._merge_preset_defaults. *)

s_index_sheet == <<"i","n","d","e","x","_","s","h","e","e","t">>
s_pat_INDEX == <<"*","I","N","D","E","X","*",".","p","d","f">>
s_lighting_signing == <<"l","i","g","h","t","i","n","g","_","s","i","g","n","i","n","g">>
s_pat_SIGN == <<"*","S","I","G","N","*",".","p","d","f">>
s_GN == <<"G","N">>
s_form_ic702 == <<"F","o","r","m"," ","I","C","-","7","0","2">>
s_STAGE_2 == <<"S","T","A","G","E"," ","2">>

\* get_stage_defaults: the Stage2 preset of idm_requirements.py, each of its
\* lists cut to its first entries; any other preset name is unknown.
NoDefaults == [none |-> TRUE]
get_stage_defaults(preset) ==
    IF preset = s_Stage2
    THEN [ required |-> << RequirementConfig(s_title_sheet, s_pat_TITLE),
                           RequirementConfig(s_index_sheet, s_pat_INDEX) >>,
           optional |-> << RequirementConfig(s_lighting_signing, s_pat_SIGN) >>,
           discipline_codes |-> <<s_GN>>,
           forms |-> <<s_form_ic702>>,
           keywords_required |-> <<s_STAGE_2>>,
           keywords_forbidden |-> <<>> ]
    ELSE NoDefaults

\* A faulty variant of merge_requirements: an item whose key was seen before
\* is dropped, so the first writer wins.
RECURSIVE merge_requirements_first_wins(_)
merge_requirements_first_wins(items) ==
    IF Len(items) = 0 THEN <<>>
    ELSE LET front == merge_requirements_first_wins(SubSeq(items, 1, Len(items) - 1))
             item == items[Len(items)]
         IN  IF \E i \in 1..Len(front) : front[i].key = item.key
             THEN front
             ELSE Append(front, item)

\* combined[key] = item for each item: a key seen before keeps its place and
\* takes the later item.
RECURSIVE merge_requirements(_)
merge_requirements(items) ==
    IF Len(items) = 0 THEN <<>>
    ELSE LET front == merge_requirements(SubSeq(items, 1, Len(items) - 1))
             item == items[Len(items)]
         IN  IF \E i \in 1..Len(front) : front[i].key = item.key
             THEN [i \in 1..Len(front) |-> IF front[i].key = item.key THEN item ELSE front[i]]
             ELSE Append(front, item)

\* _merge_unique: the defaults, then the provided values not seen before.
merge_unique(default_items, provided) == distinct_keys(default_items \o provided)

\* What pydantic built from a stage document, or the error it raised.
Loaded(values) ==
    [ exc |-> NoExc,
      cfg |-> [f \in DOMAIN StageArtifacts |-> values[f]] ]
LoadFailed(e) == [exc |-> e, cfg |-> NoStageConfig]

\* StageArtifacts._merge_preset_defaults, then the construction of the model.
merge_preset_defaults(values) ==
    IF ~Truthy(values.preset) \/ ~values.inherit_defaults THEN Loaded(values)
    ELSE LET defaults == get_stage_defaults(values.preset)
         IN  IF defaults = NoDefaults THEN LoadFailed("ValueError")
             ELSE IF \E f \in {"required", "optional"} :
                        \E i \in 1..Len(defaults[f] \o values[f]) :
                            ~Truthy((defaults[f] \o values[f])[i].key)
             THEN LoadFailed("ValueError")
             ELSE Loaded([f \in DOMAIN StageArtifacts |->
                            IF f \in {"required", "optional"}
                            THEN merge_requirements(defaults[f] \o values[f])
                            ELSE merge_unique(defaults[f], values[f])])

\* yaml.safe_load of a mapping: a key written twice keeps its first place and
\* its last value.
RECURSIVE yaml_mapping(_)
yaml_mapping(pairs) ==
    IF Len(pairs) = 0 THEN <<>>
    ELSE LET front == yaml_mapping(SubSeq(pairs, 1, Len(pairs) - 1))
             pair == pairs[Len(pairs)]
         IN  IF \E i \in 1..Len(front) : front[i].key = pair.key
             THEN [i \in 1..Len(front) |-> IF front[i].key = pair.key THEN pair ELSE front[i]]
             ELSE Append(front, pair)

\* Config.parse_obj(data) for the stages of the document, wrapped by load_config:
\* a validation error of any stage, or an empty stages mapping, is ConfigError.
parse_config(document) ==
    LET data == yaml_mapping(document.stages)
        stages == [i \in 1..Len(data) |-> merge_preset_defaults(data[i].values)]
    IN  IF data = <<>> \/ \E i \in 1..Len(stages) : stages[i].exc # NoExc
        THEN [exc |-> "ConfigError", config |-> NoStageConfig]
        ELSE [exc |-> NoExc,
              config |-> [BaseConfig EXCEPT
                            !.stages = [i \in 1..Len(data) |->
                                          StageEntry(data[i].key, stages[i].cfg)]]]

---------------------------------------------------------------------------
(* load_config called on a configuration document.                         *)

RawRequirements ==
    { RequirementConfig(s_title_sheet, s_pat_TITLE), RequirementConfig(s_plans, s_pat_PLANS),
      RequirementConfig(<<>>, s_pat_readme) }

RawRequired == UNION { [1..n -> RawRequirements] : n \in 0..MaxReqs }

\* The stage documents: with no preset, the Stage2 preset or an unknown one.
RawStages ==
    { [ preset |-> preset, inherit_defaults |-> inherit, required |-> required,
        optional |-> optional, discipline_codes |-> <<s_ROAD>>, forms |-> <<>>,
        keywords_required |-> <<>>, keywords_forbidden |-> <<>> ] :
      preset \in {None, s_Stage2, s_Stage9}, inherit \in BOOLEAN,
      required \in RawRequired,
      optional \in { <<>>, <<RequirementConfig(s_title_sheet, s_pat_title_lc)>>,
                     <<RequirementConfig(s_lighting_signing, s_pat_SIGN)>> } }

\* The documents: up to MaxStages stage entries, keys possibly written twice;
\* the first entry is any stage document, the others are empty stages.
Documents ==
    { [stages |-> [i \in 1..Len(keys) |->
                     [key |-> keys[i],
                      values |-> IF i = 1 THEN raw
                                 ELSE [raw EXCEPT !.preset = None, !.required = <<>>,
                                                  !.optional = <<>>]]]] :
      keys \in UNION { [1..n -> {s_Stage2, s_Stage3}] : n \in 0..MaxStages },
      raw \in RawStages }

InitConfig ==
    /\ call \in { [op |-> "load_config", document |-> d] : d \in Documents }
    /\ ret = NotCalled
    /\ PipelineIdle

CallLoadConfig ==
    /\ call.op = "load_config"
    /\ ret = NotCalled
    /\ ret' = parse_config(call.document)
    /\ UNCHANGED <<call, pc, idx, build, result, exc, outputs, archive, gui>>

SpecConfig == InitConfig /\ [][CallLoadConfig]_vars

ConfigLoaded == call.op = "load_config" /\ ret # NotCalled /\ ret.exc = NoExc

Distinct(s) == \A i, j \in 1..Len(s) : i # j => s[i] # s[j]

\* C15: in every configuration the loader accepts the stage keys are unique
\* and, within each stage, no requirement key occurs twice in the required and
\* optional lists taken together, with or without a preset.
C15_UniqueKeys ==
    ConfigLoaded =>
        /\ Distinct(StageKeys(ret.config))
        /\ \A i \in 1..Len(ret.config.stages) :
              LET stage == ret.config.stages[i].cfg
                  both == stage.required \o stage.optional
              IN  Distinct([r \in 1..Len(both) |-> both[r].key])


---------------------------------------------------------------------------
(* The archive.                                                            *)

\* C16: after a successful run_package the archive holds exactly one entry per
\* manifest file and nothing else, and the names of its entries are the
\* relative paths of the manifest rows.
C16_ArchiveIsManifest ==
    (call.op = "run_package" /\ pc = "packaged") =>
        /\ Len(archive) = Len(result.manifest)
        /\ \A i \in 1..Len(archive) : archive[i].arcname = result.manifest[i].relative_path


---------------------------------------------------------------------------
(* parse_filename: the sheet range of a matched name.                      *)

\* parse_filename was called on a name a regex matches with a sheet range.
RangeParsed ==
    /\ call.op = "parse_filename"
    /\ ret # NotCalled
    /\ ~SpaceCase(call.path, call.config)
    /\ ~NoRegexMatches(call.path, call.config)
    /\ Truthy(Get(first_match(call.config, call.path).groupdict, "sheet_range"))

\* The components of that sheet range, and how many satisfy a test.
RangeComponents == split(first_match(call.config, call.path).groupdict.sheet_range, "-")
NonNumeric == { i \in 1..Len(RangeComponents) : ~isdigit(RangeComponents[i]) }
OffWidth ==
    { i \in 1..Len(RangeComponents) :
        Len(RangeComponents[i]) # call.config.checks.sheet_numbering.width }

\* How many messages of a kind are about the component.
MessagesAbout(kind, component) ==
    Cardinality({ m \in 1..Len(ret.messages) :
                    ret.messages[m].kind = kind /\ ret.messages[m].args[1] = component })

\* C17: with the width check enabled, parse_filename emits a width-mismatch
\* error for every component of the sheet range whose length differs from the
\* configured width, whether or not the component is all digits: a component
\* that is non-numeric and of the wrong width gets both errors.
C17_WidthIndependentOfDigits ==
    (RangeParsed /\ call.config.checks.sheet_numbering.enabled) =>
        /\ ret.exc = NoExc
        /\ Len(of_kinds(ret.messages, {"SheetWidthMismatch"})) = Cardinality(OffWidth)
        /\ \A i \in OffWidth :
              MessagesAbout("SheetWidthMismatch", RangeComponents[i]) >= 1
        /\ \A i \in OffWidth \cap NonNumeric :
              MessagesAbout("NonNumericSheet", RangeComponents[i]) >= 1

\* C18: for a matched name whose sheet range has a component that is not all
\* digits, parse_filename returns, with one non-numeric error per such
\* component and sheet_start and sheet_end both null; a bare all-digit token
\* gives (start, null) and an all-digit start-end token gives (start, end).
C18_NonNumericSuppressesRange ==
    RangeParsed =>
        /\ NonNumeric # {} =>
              /\ ret.exc = NoExc
              /\ Len(of_kinds(ret.messages, {"NonNumericSheet"})) = Cardinality(NonNumeric)
              /\ ret.parsed.sheet_start = NoInt
              /\ ret.parsed.sheet_end = NoInt
        /\ (NonNumeric = {} /\ Len(RangeComponents) <= 2
            /\ (call.config.checks.sheet_numbering.enabled => OffWidth = {})) =>
              /\ ret.exc = NoExc
              /\ ret.parsed.sheet_start = DigitsValue(RangeComponents[1])
              /\ ret.parsed.sheet_end = IF Len(RangeComponents) = 2
                                        THEN DigitsValue(RangeComponents[2]) ELSE NoInt

\* C19: for a sheet range whose components are numeric and of the configured
\* width, parse_filename emits the inverted-range error exactly once when the
\* range is a-b with a > b and never when a <= b or the range has one
\* component; the record carries sheet_start = a and sheet_end = b.
C19_InvertedRangeOnce ==
    ( /\ RangeParsed
      /\ NonNumeric = {}
      /\ Len(RangeComponents) <= 2
      /\ call.config.checks.sheet_numbering.enabled => OffWidth = {} ) =>
        LET a == DigitsValue(RangeComponents[1])
            b == IF Len(RangeComponents) = 2 THEN DigitsValue(RangeComponents[2]) ELSE NoInt
        IN  /\ ret.exc = NoExc
            /\ Len(of_kinds(ret.messages, {"InvertedRange"}))
                  = IF b # NoInt /\ a > b THEN 1 ELSE 0
            /\ ret.parsed.sheet_start = a
            /\ ret.parsed.sheet_end = b


---------------------------------------------------------------------------
(* validate_discipline_codes called on its own.                            *)

\* Parsed records as ParsedFilename can hold them: the declared fields only.
ParsedPool ==
    { [ParsedFilename(FormatName(s_des, stage, discipline, s_PLANS, s_0001, s_pdf)) EXCEPT
          !.des = s_des, !.stage = lower(stage), !.discipline = discipline,
          !.sheet_type = s_PLANS, !.sheet_start = 1, !.ext = s_pdf] :
      stage \in {s_Stage2, s_Stage3}, discipline \in {s_ROAD, s_BAD} }
    \cup { [ParsedFilename(s_README_txt) EXCEPT !.ext = s_txt] }

ParsedLists == UNION { [1..n -> ParsedPool] : n \in 0..MaxFiles }

InitDiscipline ==
    /\ call \in { [op |-> "validate_discipline_codes", parsed_files |-> parsed_files,
                   stage_key |-> s_Stage2, stage_config |-> stage_config,
                   config |-> [BaseConfig EXCEPT !.checks.discipline_codes.enabled = enabled]] :
                  parsed_files \in ParsedLists,
                  stage_config \in { NoStageConfig, StageArtifacts,
                                     [StageArtifacts EXCEPT
                                         !.discipline_codes = <<s_ROAD, s_TITLE>>] },
                  enabled \in BOOLEAN }
    /\ ret = NotCalled
    /\ PipelineIdle

CallValidateDisciplineCodes ==
    /\ call.op = "validate_discipline_codes"
    /\ ret = NotCalled
    /\ ret' = validate_discipline_codes(call.parsed_files, call.stage_key,
                                        call.stage_config, call.config)
    /\ UNCHANGED <<call, pc, idx, build, result, exc, outputs, archive, gui>>

SpecDiscipline == InitDiscipline /\ [][CallValidateDisciplineCodes]_vars

\* The gate: the policy flag is set and the stage has a non-empty whitelist.
DisciplineGateOpen ==
    /\ call.config.checks.discipline_codes.enabled
    /\ call.stage_config # NoStageConfig
    /\ call.stage_config.discipline_codes # <<>>

\* C20: validate_discipline_codes returns no message at all, neither a stage
\* mismatch nor a discipline that is not permitted, unless the discipline
\* policy flag is set and the stage under validation has a non-empty whitelist.
C20_DisciplineGated ==
    (call.op = "validate_discipline_codes" /\ ret # NotCalled /\ ~DisciplineGateOpen) =>
        /\ ret.exc = NoExc
        /\ ret.messages = <<>>


---------------------------------------------------------------------------
(* detect_duplicate_ranges and validate_sheet_numbering called on their    *)
(* own, over parsed records as parse_filename fills them.                  *)

MaxRanges == 3

s_BRDG == <<"B","R","D","G">>
s_INDEX == <<"I","N","D","E","X">>
s_UNKNOWN == <<"U","N","K","N","O","W","N">>

\* The sheet range as the file name spells it.
RangeText(sheet_start, sheet_end) ==
    IF sheet_start = NoInt THEN <<"n","o","n","e">>
    ELSE FormatInt(sheet_start, 4)
         \o (IF sheet_end = NoInt THEN <<>> ELSE <<"-">> \o FormatInt(sheet_end, 4))

\* The record parse_filename fills for a file of the given fields
\* (validators.py:104-160); a group the expression lacks stays None.
Sheet(discipline, sheet_type, sheet_start, sheet_end) ==
    [ParsedFilename(FormatName(s_des, s_Stage2,
                               IF discipline = None THEN <<>> ELSE discipline,
                               sheet_type, RangeText(sheet_start, sheet_end), s_pdf)) EXCEPT
        !.des = s_des, !.stage = s_stage2, !.discipline = discipline,
        !.sheet_type = sheet_type, !.sheet_start = sheet_start,
        !.sheet_end = sheet_end, !.ext = s_pdf]

SheetPool ==
    { Sheet(s_ROAD, s_PLANS, n, NoInt) : n \in 0..4 }
    \cup { Sheet(s_ROAD, s_PLANS, n, n + 2) : n \in 1..4 }
    \cup { Sheet(s_ROAD, s_INDEX, 0, NoInt), Sheet(s_ROAD, s_INDEX, 1, 3),
           Sheet(s_ROAD, s_PLANS, 3, 0), Sheet(s_ROAD, s_PLANS, NoInt, NoInt),
           Sheet(s_BRDG, s_PLANS, 1, 3), Sheet(s_BRDG, s_PLANS, 3, NoInt),
           Sheet(None, s_PLANS, 1, 3), Sheet(None, s_PLANS, 2, NoInt) }

\* The parsed records of a directory: distinct files, in the order of
\* _gather_files (packager.py:57), which is the order _build_manifest
\* appends them in.
SheetLists ==
    UNION { { l \in [1..n -> SheetPool] :
                \A i, j \in 1..n : i < j => StrLess(l[i].source, l[j].source) } :
            n \in 0..MaxRanges }

NumberingConfigs ==
    { [BaseConfig EXCEPT !.checks.sheet_numbering.enabled = FALSE] }
    \cup { [BaseConfig EXCEPT !.checks.sheet_numbering.require_contiguous = contiguous,
                              !.checks.sheet_numbering.starting_number = starting_number] :
           contiguous \in BOOLEAN, starting_number \in {NoInt, 1} }

InitNumbering ==
    /\ call \in { [op |-> "detect_duplicate_ranges", parsed_files |-> parsed_files,
                   config |-> BaseConfig] : parsed_files \in SheetLists }
              \cup { [op |-> "validate_sheet_numbering", parsed_files |-> parsed_files,
                      config |-> config] :
                     parsed_files \in SheetLists, config \in NumberingConfigs }
    /\ ret = NotCalled
    /\ PipelineIdle

CallDetectDuplicateRanges ==
    /\ call.op = "detect_duplicate_ranges"
    /\ ret = NotCalled
    /\ ret' = Messages(detect_duplicate_ranges(call.parsed_files))
    /\ UNCHANGED <<call, pc, idx, build, result, exc, outputs, archive, gui>>

CallValidateSheetNumbering ==
    /\ call.op = "validate_sheet_numbering"
    /\ ret = NotCalled
    /\ ret' = Messages(validate_sheet_numbering(call.parsed_files, call.config))
    /\ UNCHANGED <<call, pc, idx, build, result, exc, outputs, archive, gui>>

NextNumbering == CallDetectDuplicateRanges \/ CallValidateSheetNumbering

SpecNumbering == InitNumbering /\ [][NextNumbering]_vars

DuplicatesReturned == call.op = "detect_duplicate_ranges" /\ ret # NotCalled
NumberingReturned == call.op = "validate_sheet_numbering" /\ ret # NotCalled


\* The range a record stands for, a single-sheet file counting as (start, start).
RangeOf(parsed) ==
    <<parsed.sheet_start,
      IF parsed.sheet_end = NoInt THEN parsed.sheet_start ELSE parsed.sheet_end>>

Before(a, b) == a[1] < b[1] \/ (a[1] = b[1] /\ a[2] < b[2])

\* The positions of the files of one discipline that carry a sheet range.
Ranged(discipline) ==
    { i \in 1..Len(call.parsed_files) :
        /\ call.parsed_files[i].discipline = discipline
        /\ call.parsed_files[i].sheet_start # NoInt }

NamedDisciplines ==
    { call.parsed_files[i].discipline : i \in 1..Len(call.parsed_files) } \ {None}

\* Files i and j of the discipline follow each other in (start, end) order.
AdjacentInOrder(discipline, i, j) ==
    LET a == RangeOf(call.parsed_files[i])
        b == RangeOf(call.parsed_files[j])
    IN  /\ i # j
        /\ ~Before(b, a)
        /\ ~\E k \in Ranged(discipline) :
              LET c == RangeOf(call.parsed_files[k]) IN Before(a, c) /\ Before(c, b)

AdjacentOverlap(discipline) ==
    \E i, j \in Ranged(discipline) :
        /\ AdjacentInOrder(discipline, i, j)
        /\ RangeOf(call.parsed_files[j])[1] <= RangeOf(call.parsed_files[i])[2]

OverlapWarnings(discipline) ==
    { n \in 1..Len(ret.messages) :
        /\ ret.messages[n].kind = "OverlappingSheets"
        /\ ret.messages[n].level = WARNING
        /\ ret.messages[n].args[1] = discipline }

ContinuityConfigured ==
    \/ call.config.checks.sheet_numbering.require_contiguous
    \/ call.config.checks.sheet_numbering.starting_number # NoInt

OverlapReported ==
    /\ \A discipline \in NamedDisciplines :
          AdjacentOverlap(discipline) => OverlapWarnings(discipline) # {}
    /\ ~ContinuityConfigured =>
          \A n \in 1..Len(ret.messages) : ret.messages[n].kind = "OverlappingSheets"

\* C21 as stated: validate_sheet_numbering runs the overlap sub-check whatever
\* the sheet-numbering policy settings, so two files of one discipline whose
\* ranges overlap and are adjacent in sorted order always give an overlap
\* warning, and only the continuity and starting-number messages depend on
\* require_contiguous or starting_number.
C21_OverlapAlwaysRuns == NumberingReturned => OverlapReported

\* C21 as amended: the same, whenever the sheet-numbering policy is enabled.
C21_OverlapRunsWhenEnabled ==
    (NumberingReturned /\ call.config.checks.sheet_numbering.enabled) => OverlapReported

C21_Witness ==
    /\ NumberingReturned
    /\ call.config.checks.sheet_numbering.enabled
    /\ ~ContinuityConfigured
    /\ AdjacentOverlap(s_ROAD)
    /\ OverlapWarnings(s_ROAD) # {}


\* The files of a discipline in (start, end) order: an ordering of their
\* positions along which the ranges never decrease.
InRangeOrder(discipline) ==
    LET n == Cardinality(Ranged(discipline))
    IN  CHOOSE q \in [1..n -> Ranged(discipline)] :
            /\ \A i, j \in 1..n : i # j => q[i] # q[j]
            /\ \A i \in 1..n : i > 1 =>
                  ~Before(RangeOf(call.parsed_files[q[i]]),
                          RangeOf(call.parsed_files[q[i - 1]]))

\* The adjacent pairs of that order whose second start is <= the first end.
OverlappingPairs(discipline) ==
    LET q == InRangeOrder(discipline)
    IN  { i \in 2..Len(q) :
            RangeOf(call.parsed_files[q[i]])[1] <= RangeOf(call.parsed_files[q[i - 1]])[2] }

\* C22: per discipline the number of overlap warnings of
\* detect_duplicate_ranges equals the number of adjacent pairs, in
\* (start, end)-sorted order, whose second start is <= the first end, a
\* single-sheet file counting as (start, start); every message is a warning.
C22_OverlapCount ==
    DuplicatesReturned =>
        /\ \A discipline \in NamedDisciplines :
              Cardinality(OverlapWarnings(discipline))
                  = Cardinality(OverlappingPairs(discipline))
        /\ \A n \in 1..Len(ret.messages) :
              /\ ret.messages[n].level = WARNING
              /\ ret.messages[n].kind = "OverlappingSheets"
              /\ ret.messages[n].args[1] \in NamedDisciplines


\* Two ranges share a sheet number.
Overlap(a, b) == a[1] <= b[2] /\ b[1] <= a[2]
\* Range a lies inside range b.
Inside(a, b) == b[1] <= a[1] /\ a[2] <= b[2]

\* Some overlap warning names the ranges of files i and j.
PairReported(discipline, i, j) ==
    LET a == RangeOf(call.parsed_files[i])
        b == RangeOf(call.parsed_files[j])
        first == IF Before(b, a) THEN b ELSE a
        second == IF Before(b, a) THEN a ELSE b
    IN  \E n \in OverlapWarnings(discipline) :
            ret.messages[n].args = <<discipline, str(first[1]), str(first[2]),
                                     str(second[1]), str(second[2])>>

AllOverlapsReported(discipline) ==
    \A i, j \in Ranged(discipline) :
        (i # j /\ Overlap(RangeOf(call.parsed_files[i]), RangeOf(call.parsed_files[j])))
            => PairReported(discipline, i, j)

NoNesting(discipline) ==
    \A i, j \in Ranged(discipline) :
        i # j => ~Inside(RangeOf(call.parsed_files[i]), RangeOf(call.parsed_files[j]))

\* No sheet number belongs to three ranges of the discipline.
NoTripleSheet(discipline) ==
    \A i, j, k \in Ranged(discipline) :
        (i # j /\ j # k /\ i # k) =>
            \E x, y \in {i, j, k} :
                RangeOf(call.parsed_files[x])[1] > RangeOf(call.parsed_files[y])[2]

\* C23 as stated: in a discipline in which no range lies inside another,
\* every pair of overlapping ranges is reported by an overlap warning.
C23_MissesOnlyNested ==
    DuplicatesReturned =>
        \A discipline \in NamedDisciplines :
            NoNesting(discipline) => AllOverlapsReported(discipline)

\* C23 as amended: in a discipline in which no range lies inside another and
\* no sheet number belongs to three or more ranges, every pair of overlapping
\* ranges is reported by an overlap warning.
C23_MissesOnlyCrowded ==
    DuplicatesReturned =>
        \A discipline \in NamedDisciplines :
            (NoNesting(discipline) /\ NoTripleSheet(discipline))
                => AllOverlapsReported(discipline)

C23_Witness ==
    /\ DuplicatesReturned
    /\ Cardinality(Ranged(s_ROAD)) = 3
    /\ NoNesting(s_ROAD)
    /\ NoTripleSheet(s_ROAD)
    /\ \E i, j \in Ranged(s_ROAD) :
          /\ i # j
          /\ Overlap(RangeOf(call.parsed_files[i]), RangeOf(call.parsed_files[j]))
    /\ AllOverlapsReported(s_ROAD)


\* The group the continuity check files a record under.
GroupKey(parsed) == IF Truthy(parsed.discipline) THEN parsed.discipline ELSE s_UNKNOWN

Numbered(key) ==
    { i \in 1..Len(call.parsed_files) :
        /\ call.parsed_files[i].sheet_start # NoInt
        /\ GroupKey(call.parsed_files[i]) = key }

GroupKeys ==
    { GroupKey(call.parsed_files[i]) :
        i \in { k \in 1..Len(call.parsed_files) : call.parsed_files[k].sheet_start # NoInt } }

\* File i comes before file j in sheet_start order.
StartsBefore(i, j) ==
    \/ call.parsed_files[i].sheet_start < call.parsed_files[j].sheet_start
    \/ /\ call.parsed_files[i].sheet_start = call.parsed_files[j].sheet_start
       /\ i < j

\* The files that directly precede file i in its group.
Previous(key, i) ==
    { j \in Numbered(key) :
        /\ StartsBefore(j, i)
        /\ ~\E k \in Numbered(key) : StartsBefore(j, k) /\ StartsBefore(k, i) }

\* File i does not continue the file before it.
Gap(key, i) ==
    \E j \in Previous(key, i) :
        call.parsed_files[i].sheet_start
            # IntOr(call.parsed_files[j].sheet_end, call.parsed_files[j].sheet_start) + 1

GapErrors(key) ==
    { n \in 1..Len(ret.messages) :
        ret.messages[n].kind = "NumberingGap" /\ ret.messages[n].args[1] = key }

StartingNumberMessages(key) ==
    { n \in 1..Len(ret.messages) :
        ret.messages[n].kind = "StartingNumber" /\ ret.messages[n].args[1] = key }

LowestStart(key) ==
    CHOOSE v \in { call.parsed_files[i].sheet_start : i \in Numbered(key) } :
        \A i \in Numbered(key) : v <= call.parsed_files[i].sheet_start

\* C24: with require_contiguous set, per discipline and in sheet_start order,
\* one numbering-gap error is emitted for each record after the first whose
\* sheet_start differs from the previous record's (sheet_end or sheet_start)
\* + 1, and for no other record; a starting-number mismatch gives a warning,
\* never an error.
C24_ContinuityWithoutCascade ==
    (NumberingReturned /\ call.config.checks.sheet_numbering.enabled) =>
        \A key \in GroupKeys :
            /\ call.config.checks.sheet_numbering.require_contiguous =>
                 /\ \A i \in Numbered(key) :
                       Gap(key, i) <=>
                          \E n \in GapErrors(key) :
                             /\ ret.messages[n].level = ERROR
                             /\ ret.messages[n].args[3] = call.parsed_files[i].source
                 /\ Cardinality(GapErrors(key))
                       = Cardinality({ i \in Numbered(key) : Gap(key, i) })
            /\ \A n \in StartingNumberMessages(key) : ret.messages[n].level = WARNING
            /\ (/\ call.config.checks.sheet_numbering.starting_number # NoInt
                /\ LowestStart(key) # call.config.checks.sheet_numbering.starting_number)
                  => StartingNumberMessages(key) # {}


\* Every range of the discipline has start <= end.
WellFormed(discipline) ==
    \A i \in Ranged(discipline) :
        RangeOf(call.parsed_files[i])[1] <= RangeOf(call.parsed_files[i])[2]

SomeOverlap(discipline) ==
    \E i, j \in Ranged(discipline) :
        i # j /\ Overlap(RangeOf(call.parsed_files[i]), RangeOf(call.parsed_files[j]))

\* C27: for the files of one discipline whose ranges have start <= end,
\* detect_duplicate_ranges emits at least one overlap warning if and only if
\* some two of the ranges share a sheet number.
C27_OverlapDetected ==
    DuplicatesReturned =>
        \A discipline \in NamedDisciplines :
            WellFormed(discipline) =>
                (OverlapWarnings(discipline) # {} <=> SomeOverlap(discipline))

\* Three ranges, two of which overlap without being reported as a pair.
C27_Witness ==
    /\ DuplicatesReturned
    /\ WellFormed(s_ROAD)
    /\ Cardinality(Ranged(s_ROAD)) = 3
    /\ SomeOverlap(s_ROAD)
    /\ ~AllOverlapsReported(s_ROAD)
    /\ OverlapWarnings(s_ROAD) # {}


\* Some overlap warning, under whatever discipline label, names the ranges of
\* files i and j.
PairCompared(i, j) ==
    LET a == RangeOf(call.parsed_files[i])
        b == RangeOf(call.parsed_files[j])
    IN  \E n \in 1..Len(ret.messages) :
            /\ ret.messages[n].kind = "OverlappingSheets"
            /\ SubSeq(ret.messages[n].args, 2, 5)
                  \in { <<str(a[1]), str(a[2]), str(b[1]), str(b[2])>>,
                        <<str(b[1]), str(b[2]), str(a[1]), str(a[2])>> }

\* Two files of a continuity group whose ranges overlap.
GroupOverlap(key) ==
    \E i, j \in Numbered(key) :
        i # j /\ Overlap(RangeOf(call.parsed_files[i]), RangeOf(call.parsed_files[j]))

\* C29: the overlap sub-check and the continuity sub-check of
\* validate_sheet_numbering work on the same groups: the files of a continuity
\* group, the group of files without a discipline included, are compared with
\* each other by the overlap sub-check, so a group of well-formed ranges two of
\* which overlap gives an overlap warning about two of its files.
C29_SameGroups ==
    (NumberingReturned /\ call.config.checks.sheet_numbering.enabled /\ ContinuityConfigured) =>
        \A key \in GroupKeys :
            (/\ \A i \in Numbered(key) :
                   RangeOf(call.parsed_files[i])[1] <= RangeOf(call.parsed_files[i])[2]
             /\ GroupOverlap(key))
                => \E i, j \in Numbered(key) : i # j /\ PairCompared(i, j)


---------------------------------------------------------------------------
(* validate_indot_forms called on its own.                                 *)

s_ic_102_PDF == <<"i","c","_","1","0","2",".","P","D","F">>
s_notes_txt == <<"n","o","t","e","s",".","t","x","t">>
s_form_dashes == <<"-","-">>

FormFiles ==
    { File(s_README_txt, 0, <<>>), File(s_ic_102_PDF, 1, <<>>), File(s_notes_txt, 0, <<>>),
      File(FormatName(s_des, s_Stage2, s_ROAD, s_PLANS, s_0001, s_pdf), 1, <<>>) }

\* The files of a directory in the order of _gather_files.
FormFileLists ==
    UNION { { l \in [1..n -> FormFiles] :
                \A i, j \in 1..n : i < j => StrLess(l[i].name, l[j].name) } :
            n \in 0..MaxFiles }

FormPool == { s_form_readme, s_form_ic, s_form_ic702, s_form_dashes }
FormLists == UNION { [1..n -> FormPool] : n \in 0..MaxReqs }

InitForms ==
    /\ call \in { [op |-> "validate_indot_forms", files |-> files,
                   stage_config |-> stage_config,
                   config |-> [BaseConfig EXCEPT !.checks.forms.enabled = enabled]] :
                  files \in FormFileLists,
                  stage_config \in {NoStageConfig}
                      \cup { [StageArtifacts EXCEPT !.forms = forms] : forms \in FormLists },
                  enabled \in BOOLEAN }
    /\ ret = NotCalled
    /\ PipelineIdle

CallValidateIndotForms ==
    /\ call.op = "validate_indot_forms"
    /\ ret = NotCalled
    /\ ret' = Messages(validate_indot_forms(call.files, call.stage_config, call.config))
    /\ UNCHANGED <<call, pc, idx, build, result, exc, outputs, archive, gui>>

SpecForms == InitForms /\ [][CallValidateIndotForms]_vars

FormsReturned == call.op = "validate_indot_forms" /\ ret # NotCalled

\* A text with everything but letters and digits stripped, lowercased.
Squashed(text) == lower(SelectSeq(text, IsAlnumChar))

\* The form's token is contained in no file name.
FormAbsent(form) ==
    \A n \in 1..Len(call.files) : ~Contains(Squashed(form), Squashed(call.files[n].name))

FormsChecked ==
    /\ call.stage_config # NoStageConfig
    /\ call.config.checks.forms.enabled
    /\ call.stage_config.forms # <<>>

MissingFormErrors(form) ==
    { n \in 1..Len(ret.messages) :
        /\ ret.messages[n].kind = "MissingForm"
        /\ ret.messages[n].level = ERROR
        /\ ret.messages[n].args = <<form>> }

\* The positions of the form in the stage's forms list.
PositionsOf(form) ==
    { k \in 1..Len(call.stage_config.forms) : call.stage_config.forms[k] = form }

FormsResult(skipped(_)) ==
    IF FormsChecked
    THEN /\ \A k \in 1..Len(call.stage_config.forms) :
               LET form == call.stage_config.forms[k]
               IN  Cardinality(MissingFormErrors(form))
                      = IF FormAbsent(form) /\ ~skipped(form)
                        THEN Cardinality(PositionsOf(form)) ELSE 0
         /\ \A n \in 1..Len(ret.messages) :
               \E k \in 1..Len(call.stage_config.forms) :
                   n \in MissingFormErrors(call.stage_config.forms[k])
    ELSE ret.messages = <<>>

NeverSkipped(form) == FALSE
EmptyToken(form) == Squashed(form) = <<>>

\* C25 as stated: with the forms policy enabled and forms listed,
\* validate_indot_forms emits one missing-form error for each configured form
\* whose normalized token is a substring of no file's normalized name and none
\* for the other forms; with the policy disabled or no forms it emits nothing.
C25_FormsCheck == FormsReturned => FormsResult(NeverSkipped)

\* C25 as amended: the same, for the forms whose normalized token is not empty;
\* a form without any letter or digit never gives an error.
C25_FormsCheckNonEmptyTokens == FormsReturned => FormsResult(EmptyToken)

C25_Witness ==
    /\ FormsReturned
    /\ FormsChecked
    /\ call.stage_config.forms = <<s_form_ic, s_form_ic702>>
    /\ \E n \in 1..Len(call.files) : call.files[n].name = s_ic_102_PDF
    /\ MissingFormErrors(s_form_ic) = {}
    /\ MissingFormErrors(s_form_ic702) # {}


---------------------------------------------------------------------------
(* StageArtifacts._merge_preset_defaults called on the values of a stage.  *)

MergeRequirements ==
    { RequirementConfig(s_title_sheet, s_pat_title_lc), RequirementConfig(s_plans, s_pat_PLANS),
      RequirementConfig(s_plans, s_pat_alt), RequirementConfig(<<>>, s_pat_readme) }

MergeValues ==
    { [ preset |-> preset, inherit_defaults |-> inherit, required |-> required,
        optional |-> optional, discipline_codes |-> discipline_codes, forms |-> forms,
        keywords_required |-> <<>>, keywords_forbidden |-> <<s_FORBIDDEN>> ] :
      preset \in {None, s_Stage2, s_Stage9}, inherit \in BOOLEAN,
      required \in UNION { [1..n -> MergeRequirements] : n \in 0..MaxReqs },
      optional \in { <<>>, <<RequirementConfig(s_lighting_signing, s_pat_alt)>>,
                     <<RequirementConfig(s_plans, s_pat_PLANS)>> },
      discipline_codes \in { <<>>, <<s_ROAD, s_GN>>, <<s_ROAD, s_ROAD>> },
      forms \in { <<>>, <<s_form_ic702, s_form_ic>> } }

InitMerge ==
    /\ call \in { [op |-> "merge_preset_defaults", values |-> values] :
                  values \in MergeValues }
    /\ ret = NotCalled
    /\ PipelineIdle

CallMergePresetDefaults ==
    /\ call.op = "merge_preset_defaults"
    /\ ret = NotCalled
    /\ ret' = merge_preset_defaults(call.values)
    /\ UNCHANGED <<call, pc, idx, build, result, exc, outputs, archive, gui>>

SpecMerge == InitMerge /\ [][CallMergePresetDefaults]_vars

\* The stage named a known preset, inherits its defaults, and was accepted.
PresetMerged ==
    /\ call.op = "merge_preset_defaults"
    /\ ret # NotCalled
    /\ ret.exc = NoExc
    /\ call.values.preset = s_Stage2
    /\ call.values.inherit_defaults

\* A list without its repetitions, each element at its first occurrence.
RECURSIVE KeepFirst(_)
KeepFirst(s) ==
    IF s = <<>> THEN <<>>
    ELSE LET Other(x) == x # Head(s)
         IN  <<Head(s)>> \o KeepFirst(SelectSeq(Tail(s), Other))

KeysOf(items) == [i \in 1..Len(items) |-> items[i].key]

\* The last entry of the list with the given key.
LastWith(items, key) ==
    items[CHOOSE i \in 1..Len(items) :
            items[i].key = key /\ \A j \in (i + 1)..Len(items) : items[j].key # key]

MergedRequirements(field) ==
    LET preset == get_stage_defaults(call.values.preset)[field]
        user == call.values[field]
        merged == ret.cfg[field]
    IN  /\ KeysOf(merged) = KeepFirst(KeysOf(preset) \o KeysOf(user))
        /\ \A i \in 1..Len(merged) :
              merged[i] = IF \E k \in 1..Len(user) : user[k].key = merged[i].key
                          THEN LastWith(user, merged[i].key)
                          ELSE LastWith(preset, merged[i].key)

MergedItems(field) ==
    ret.cfg[field]
        = KeepFirst(get_stage_defaults(call.values.preset)[field] \o call.values[field])

\* The values of the stage once merged, as a second merge receives them.
MergedValues ==
    [f \in DOMAIN call.values |->
        IF f \in DOMAIN ret.cfg THEN ret.cfg[f] ELSE call.values[f]]

\* C26: a stage that names a known preset and inherits defaults gets
\* requirement lists with every key once, the preset's keys first in preset
\* order and then the user's own keys in user order, a user entry replacing
\* the preset entry of its key; the other lists are the preset items followed
\* by the user items without repetitions; merging the result again changes
\* nothing.
C26_PresetMerge ==
    PresetMerged =>
        /\ \A field \in {"required", "optional"} : MergedRequirements(field)
        /\ \A field \in {"discipline_codes", "forms", "keywords_required",
                         "keywords_forbidden"} : MergedItems(field)
        /\ merge_preset_defaults(MergedValues) = ret

C26_Witness ==
    /\ PresetMerged
    /\ call.values.required = << RequirementConfig(s_plans, s_pat_PLANS),
                                 RequirementConfig(s_title_sheet, s_pat_title_lc) >>
    /\ ret.cfg.required = << RequirementConfig(s_title_sheet, s_pat_title_lc),
                             RequirementConfig(s_index_sheet, s_pat_INDEX),
                             RequirementConfig(s_plans, s_pat_PLANS) >>
    /\ call.values.discipline_codes = <<s_ROAD, s_GN>>
    /\ ret.cfg.discipline_codes = <<s_GN, s_ROAD>>


---------------------------------------------------------------------------
(* What a result of validate_directory says about the directory.           *)

InManifest(file) ==
    \E e \in 1..Len(result.manifest) : result.manifest[e].relative_path = file.name

\* The files of the directory that satisfy a requirement.
Satisfying(requirement) ==
    { f \in 1..Len(build.files) :
        \E p \in SeqToSet(split(requirement.pattern, "|")) :
            GlobMatchesIgnoringCase(build.files[f].name, p) }

CarriesParseError(file) ==
    \E e \in 1..Len(result.errors) :
        /\ result.errors[e].kind \in {"SpaceNotAllowed", "PatternMismatch"}
        /\ result.errors[e].args = <<file.name>>

StageConfigured == build.stage_key # None /\ build.stage_config # NoStageConfig

\* C28: a result of validate_directory without errors means that the stage
\* was configured, that every scanned file has a manifest entry and that every
\* required key is matched by a file of the manifest; a file left out of the
\* manifest satisfies a requirement only in a result that carries that file's
\* parse error.
C28_CleanResult ==
    pc = "returned" =>
        /\ result.errors = <<>> =>
              /\ StageConfigured
              /\ \A f \in 1..Len(build.files) : InManifest(build.files[f])
              /\ \A r \in 1..Len(build.stage_config.required) :
                    \E f \in Satisfying(build.stage_config.required[r]) :
                        InManifest(build.files[f])
        /\ StageConfigured =>
              \A r \in 1..Len(build.stage_config.required) :
                  \A f \in Satisfying(build.stage_config.required[r]) :
                      ~InManifest(build.files[f]) => CarriesParseError(build.files[f])

\* A required key satisfied only by a file that is not in the manifest.
C28_Witness ==
    /\ pc = "returned"
    /\ StageConfigured
    /\ \E r \in 1..Len(build.stage_config.required) :
          /\ Satisfying(build.stage_config.required[r]) # {}
          /\ \A f \in Satisfying(build.stage_config.required[r]) :
                ~InManifest(build.files[f]) /\ CarriesParseError(build.files[f])
          /\ \A e \in 1..Len(result.errors) :
                result.errors[e].kind = "MissingRequiredArtifact"
                    => result.errors[e].args # <<build.stage_config.required[r].key>>


---------------------------------------------------------------------------
(* gui/workers.py and gui/main_window.py: the main window and the worker   *)
(* it runs in a thread.                                                    *)

MaxRuns == 4

\* A signal a worker emits, with what it carries.
Emitted(signal, args) == [signal |-> signal, args |-> args]

\* ValidateWorker.run (workers.py:25-43): `finished` with the result, or
\* `failed` for any exception.
ValidateWorker_run(outcome) ==
    IF outcome = "returned" THEN <<Emitted("finished", "result")>>
    ELSE <<Emitted("failed", "Validation failed")>>

\* PackageWorker.run, lines 58-64: the output directory cannot be created.
PackageWorker_mkdir_failed == <<Emitted("failed", "Unable to create output directory")>>

\* PackageWorker.run, lines 67-68.
PackageWorker_progress == <<Emitted("progress", "Running packaging workflow")>>

\* A faulty variant of PackageWorker_run: a validation failure is logged but
\* not signalled.
PackageWorker_run_silent_failure(outcome) ==
    CASE outcome = "returned" ->
            << Emitted("progress", "Packaging completed successfully."),
               Emitted("finished", "result") >>
      [] outcome = "ValidationFailure" -> <<>>
      [] OTHER -> <<Emitted("failed", "Packaging failed")>>

\* PackageWorker.run, lines 69-88: run_package and what follows it.
PackageWorker_run(outcome) ==
    CASE outcome = "returned" ->
            << Emitted("progress", "Packaging completed successfully."),
               Emitted("finished", "result") >>
      [] outcome = "ValidationFailure" ->
            <<Emitted("failed", "Validation errors detected during packaging")>>
      [] OTHER -> <<Emitted("failed", "Packaging failed")>>

\* ReportWorker.run (workers.py:101-113).
ReportWorker_run(outcome) ==
    IF outcome = "returned" THEN <<Emitted("finished", "path")>>
    ELSE <<Emitted("failed", "Report generation failed")>>

\* The main window as MainWindow.__init__ leaves it: the form enabled, no thread.
WindowShown ==
    [ enabled |-> TRUE, threads |-> 0, runs |-> 0, worker |-> "none", at |-> "idle",
      emitted |-> <<>>, pending |-> <<>>, status |-> "ready" ]

\* _start_validation / _start_packaging / _start_report: the form is disabled,
\* then _launch_worker starts the worker in a new thread.
start_worker(window, worker, status) ==
    [window EXCEPT !.enabled = FALSE, !.status = status, !.threads = @ + 1,
                   !.runs = @ + 1, !.worker = worker, !.at = "started",
                   !.emitted = <<>>, !.pending = <<>>]

\* The worker emits signals: they are queued for the main thread in order.
emit(window, signals, at) ==
    [window EXCEPT !.emitted = @ \o signals, !.pending = @ \o signals, !.at = at]

\* _handle_result / _handle_failure: _cleanup ends the thread, then the
\* callback (_done or _fail) enables the form again.
handle_terminal(window, status) ==
    [window EXCEPT !.pending = Tail(@), !.threads = @ - 1, !.enabled = TRUE,
                   !.status = status]

\* _progress (main_window.py:155-157).
handle_progress(window) ==
    [window EXCEPT !.pending = Tail(@), !.status = Head(window.pending).args]

GuiIdle ==
    /\ call = [op |-> "gui"]
    /\ ret = NotCalled
    /\ pc = "call"
    /\ idx = 0
    /\ build = <<>>
    /\ result = <<>>
    /\ exc = NoExc
    /\ outputs = <<>>
    /\ archive = <<>>

InitGui == GuiIdle /\ gui = WindowShown

\* A button of the project form is clicked (only an enabled form takes clicks)
\* and the request reaches its slot of the main window.
\* _start_validation (main_window.py:130-147)
RequestValidate ==
    /\ gui.enabled
    /\ gui.runs < MaxRuns
    /\ gui' = start_worker(gui, "validate", "Running validation")
    /\ UNCHANGED <<call, ret, pc, idx, build, result, exc, outputs, archive>>

\* _start_packaging (main_window.py:149-174)
RequestPackage ==
    /\ gui.enabled
    /\ gui.runs < MaxRuns
    /\ gui' = start_worker(gui, "package", "Packaging in progress")
    /\ UNCHANGED <<call, ret, pc, idx, build, result, exc, outputs, archive>>

\* _start_report (main_window.py:176-194)
RequestReport ==
    /\ gui.enabled
    /\ gui.runs < MaxRuns
    /\ gui' = start_worker(gui, "report", "Generating validation report")
    /\ UNCHANGED <<call, ret, pc, idx, build, result, exc, outputs, archive>>

ValidateWorkerRun ==
    /\ gui.worker = "validate"
    /\ gui.at = "started"
    /\ \E outcome \in {"returned", "raised"} :
          gui' = emit(gui, ValidateWorker_run(outcome), "done")
    /\ UNCHANGED <<call, ret, pc, idx, build, result, exc, outputs, archive>>

PackageWorkerMkdir ==
    /\ gui.worker = "package"
    /\ gui.at = "started"
    /\ \/ gui' = emit(gui, <<>>, "created")
       \/ gui' = emit(gui, PackageWorker_mkdir_failed, "done")
    /\ UNCHANGED <<call, ret, pc, idx, build, result, exc, outputs, archive>>

PackageWorkerProgress ==
    /\ gui.worker = "package"
    /\ gui.at = "created"
    /\ gui' = emit(gui, PackageWorker_progress, "running")
    /\ UNCHANGED <<call, ret, pc, idx, build, result, exc, outputs, archive>>

PackageWorkerRun ==
    /\ gui.worker = "package"
    /\ gui.at = "running"
    /\ \E outcome \in {"returned", "ValidationFailure", "raised"} :
          gui' = emit(gui, PackageWorker_run(outcome), "done")
    /\ UNCHANGED <<call, ret, pc, idx, build, result, exc, outputs, archive>>

ReportWorkerRun ==
    /\ gui.worker = "report"
    /\ gui.at = "started"
    /\ \E outcome \in {"returned", "raised"} :
          gui' = emit(gui, ReportWorker_run(outcome), "done")
    /\ UNCHANGED <<call, ret, pc, idx, build, result, exc, outputs, archive>>

\* The main thread takes the next queued signal to its slot.
DeliverProgress ==
    /\ gui.pending # <<>>
    /\ Head(gui.pending).signal = "progress"
    /\ gui' = handle_progress(gui)
    /\ UNCHANGED <<call, ret, pc, idx, build, result, exc, outputs, archive>>

DeliverFinished ==
    /\ gui.pending # <<>>
    /\ Head(gui.pending).signal = "finished"
    /\ gui' = handle_terminal(gui, "complete")
    /\ UNCHANGED <<call, ret, pc, idx, build, result, exc, outputs, archive>>

DeliverFailed ==
    /\ gui.pending # <<>>
    /\ Head(gui.pending).signal = "failed"
    /\ gui' = handle_terminal(gui, Head(gui.pending).args)
    /\ UNCHANGED <<call, ret, pc, idx, build, result, exc, outputs, archive>>

WorkerRuns ==
    \/ ValidateWorkerRun
    \/ PackageWorkerMkdir
    \/ PackageWorkerProgress
    \/ PackageWorkerRun
    \/ ReportWorkerRun

Delivers == DeliverProgress \/ DeliverFinished \/ DeliverFailed

NextGui ==
    \/ RequestValidate
    \/ RequestPackage
    \/ RequestReport
    \/ WorkerRuns
    \/ Delivers

\* The thread runs the worker to its end, and the event loop of the main
\* thread delivers every queued signal.
SpecGui == InitGui /\ [][NextGui]_vars /\ WF_vars(WorkerRuns) /\ WF_vars(Delivers)


\* The positions of the terminal signals among those the worker has emitted.
Terminals ==
    { n \in 1..Len(gui.emitted) : gui.emitted[n].signal \in {"finished", "failed"} }

\* A run is in progress: its worker has not ended, or a signal of it is still
\* on its way to the main thread.
RunInProgress == gui.at \notin {"idle", "done"} \/ gui.pending # <<>>

OneTerminalSignal ==
    /\ Cardinality(Terminals) <= 1
    /\ \A n \in Terminals : n = Len(gui.emitted)
    /\ gui.at = "done" <=> Terminals # {}

FormGuardsRuns ==
    /\ RunInProgress => ~gui.enabled
    /\ gui.enabled <=> gui.threads = 0
    /\ gui.threads <= 1

\* C30: every run of a worker emits exactly one terminal signal, finished or
\* failed, after every progress signal; the main window disables the project
\* form when a run starts and enables it again on the terminal signal, so that
\* no run is requested while one is in progress and the form is eventually
\* enabled again after every run.
C30_WorkerLifecycle ==
    /\ [](OneTerminalSignal /\ FormGuardsRuns)
    /\ (~gui.enabled ~> gui.enabled)

\* A packaging run that went through: two progress signals, then finished,
\* all delivered, and the form enabled again.
C30_Witness ==
    /\ gui.worker = "package"
    /\ gui.at = "done"
    /\ [n \in 1..Len(gui.emitted) |-> gui.emitted[n].signal]
          = <<"progress", "progress", "finished">>
    /\ gui.pending = <<>>
    /\ gui.enabled
    /\ gui.runs = 2

===========================================================================
